---- MODULE Spec2Model ----
(***************************************************************************)
(* Decision Tree Architect: the state-constraint engine                    *)
(* (utils/stateAnalysis.ts), the reachability analyzer and the Model       *)
(* Checker (components/ModelChecker.tsx) over the store (store/useStore.ts)*)
(*                                                                         *)
(* Strings that the code inspects character by character (guard and        *)
(* invariant expressions) are sequences of tokens: an identifier, a quoted *)
(* literal, or one of == != && || ! ( ).  The empty sequence is the empty  *)
(* string.  Whitespace between tokens is not represented.                  *)
(***************************************************************************)
EXTENDS Integers, Sequences, FiniteSets, TLC

VARIABLES
    variables,            \* store.variables: Seq of [id, name, possibleValues]
    nodes,                \* store.nodes: Seq of [id, type, nodeId, expression]
    edges,                \* store.edges: Seq of [id, source, target, sourceHandle]
    invariants,           \* store.invariants: Seq of [id, condition, expectedResult]
    modelCheckerResults,  \* store.modelCheckerResults: Seq of [combo, result]
    isRunning,            \* ModelChecker state isRunning: handleRun's timer is pending
    selectedNode,         \* InspectorPanel prop selectedNodes[0] (NoSelection if none)
    unreachableNodeIds,   \* TreeEditor state unreachableNodeIds
    testCases,            \* store.testCases: Seq of [id, values]
    simulationResults,    \* store.simulationResults: test case id -> SimulationResult
    formatCall,           \* the latest call of formatState: [called, state, lines]
    draft,                \* DecisionNode state expression while it is edited (tokens)
    saved,                \* what the latest handleSave of the DecisionNode did
    selectedEdge,         \* the edge the InspectorPanel shows, or NoEdge
    timers                \* the pending timers of handleRunAll, oldest first

\* no call of formatState yet
NoCall == [called |-> FALSE, state |-> <<>>, lines |-> <<>>]

\* the part of the store that the SimulationPanel writes
simulationVars == <<testCases, simulationResults>>

\* no handleSave yet
NotSaved == [called |-> FALSE]

\* no edge is selected
NoEdge == [none |-> TRUE]

\* the DecisionNode editor, the edge selection and the timers of handleRunAll
panelVars == <<draft, saved, selectedEdge, timers>>

\* nothing edited, saved, selected or pending
PanelsIdle ==
    /\ draft = <<>>
    /\ saved = NotSaved
    /\ selectedEdge = NoEdge
    /\ timers = <<>>

vars == <<variables, nodes, edges, invariants, modelCheckerResults, isRunning,
          selectedNode, unreachableNodeIds, testCases, simulationResults, formatCall,
          draft, saved, selectedEdge, timers>>

-----------------------------------------------------------------------------
(* Bounds of the model *)

\* largest number of edges of a graph the engine is run on
MaxEdges == 3

\* largest number of declared invariants
MaxInvariants == 2

\* largest number of declared variables of a project the combinations are
\* generated for
MaxVariables == 3

\* largest number of declared variables formatState is called with
MaxFormatVariables == 2

-----------------------------------------------------------------------------
(* Tokens *)

OperatorTokens == {"==", "!=", "&&", "||", "!", "(", ")"}

\* quoted literals and the text between their quotes
QuotedTokens == {"'HIGH'", "'LOW'"}

Unquote(tok) == IF tok = "'HIGH'" THEN "HIGH" ELSE IF tok = "'LOW'" THEN "LOW" ELSE tok

\* /[a-zA-Z_$][a-zA-Z0-9_$]*/ matches exactly the tokens that are neither
\* operators nor quoted literals
IsIdentifierToken(tok) == tok \notin OperatorTokens /\ tok \notin QuotedTokens

\* a text of several tokens (e.g. "HIGH || Temp == LOW", "HIGH)") is never a
\* domain value: domain values are single identifiers (VariableManager)
CompoundText == "<compound text>"

NoSelection == "<none>"

-----------------------------------------------------------------------------
(* utils/stateAnalysis.ts *)

\* the unreachable sentinel (null)
Null == [null |-> TRUE]

Range(s) == {s[i] : i \in 1..Len(s)}

\* Array.prototype.find: the first element satisfying the test, or Null
Find(s, Test(_)) ==
    IF \E i \in 1..Len(s) : Test(s[i])
    THEN s[CHOOSE i \in 1..Len(s) : Test(s[i]) /\ \A j \in 1..(i-1) : ~Test(s[j])]
    ELSE Null

getAllValues(variable) == Range(variable.possibleValues)

\* val.trim() with surrounding quotes removed
parseValue(val) ==
    IF Len(val) = 1 THEN Unquote(val[1]) ELSE CompoundText

\* applyConstraint leaving the set as it is where == contradicts it
applyConstraintKeepsOnContradiction(state, variableName, operator, value, vs) ==
    LET variable == Find(vs, LAMBDA v : v.name = variableName) IN
    IF variable = Null \/ variable.id \notin DOMAIN state THEN state
    ELSE LET currentValues == state[variable.id]
             constraintValue == parseValue(value)
             newValues ==
                 IF operator = "=="
                 THEN IF constraintValue \in currentValues
                      THEN {constraintValue} ELSE currentValues
                 ELSE currentValues \ {constraintValue}
         IN [state EXCEPT ![variable.id] = newValues]

applyConstraint(state, variableName, operator, value, vs) ==
    LET variable == Find(vs, LAMBDA v : v.name = variableName) IN
    IF variable = Null \/ variable.id \notin DOMAIN state THEN state
    ELSE LET currentValues == state[variable.id]
             constraintValue == parseValue(value)
             newValues ==
                 IF operator = "=="
                 THEN IF constraintValue \in currentValues
                      THEN {constraintValue} ELSE {}
                 ELSE currentValues \ {constraintValue}
         IN [state EXCEPT ![variable.id] = newValues]

\* expression.split('&&'): the pieces between the && tokens
RECURSIVE SplitAnd(_)
SplitAnd(expression) ==
    IF \E i \in 1..Len(expression) : expression[i] = "&&"
    THEN LET i == CHOOSE k \in 1..Len(expression) :
                     /\ expression[k] = "&&"
                     /\ \A j \in 1..(k-1) : expression[j] # "&&"
         IN <<SubSeq(expression, 1, i-1)>>
              \o SplitAnd(SubSeq(expression, i+1, Len(expression)))
    ELSE <<expression>>

Includes(expression, tok) == \E i \in 1..Len(expression) : expression[i] = tok

\* part.match(/([a-zA-Z_$][a-zA-Z0-9_$]*)\s*(==|!=)\s*(.+)/): the leftmost
\* identifier directly followed by == or != and at least one more character;
\* the value group is everything up to the end of the text
MatchPositions(part) ==
    {i \in 1..Len(part) : /\ IsIdentifierToken(part[i])
                          /\ i + 2 <= Len(part)
                          /\ part[i+1] \in {"==", "!="}}

eqMatch(part) ==
    IF MatchPositions(part) = {} THEN Null
    ELSE LET i == CHOOSE k \in MatchPositions(part) :
                      \A j \in MatchPositions(part) : k <= j
         IN [varName |-> part[i], op |-> part[i+1],
             val |-> SubSeq(part, i+2, Len(part))]

RECURSIVE ApplyParts(_, _, _, _)
ApplyParts(state, parts, i, vs) ==
    IF i > Len(parts) THEN state
    ELSE LET m == eqMatch(parts[i]) IN
         ApplyParts(IF m = Null THEN state
                    ELSE applyConstraint(state, m.varName, m.op, m.val, vs),
                    parts, i + 1, vs)

applyExpression(state, expression, isYesBranch, vs) ==
    IF expression = <<>> THEN state
    ELSE IF isYesBranch
         THEN ApplyParts(state, SplitAnd(expression), 1, vs)
         ELSE IF ~Includes(expression, "&&") /\ ~Includes(expression, "||")
              THEN LET m == eqMatch(expression) IN
                   IF m = Null THEN state
                   ELSE applyConstraint(state, m.varName,
                                        IF m.op = "==" THEN "!=" ELSE "==",
                                        m.val, vs)
              ELSE state

VarIds(vs) == {vs[i].id : i \in 1..Len(vs)}

\* mergeStates taking the intersection of the paths' sets
mergeStatesIntersection(states) ==
    IF Len(states) = 0 THEN <<>>
    ELSE [varId \in DOMAIN states[1] |->
            {x \in states[1][varId] :
                \A k \in {j \in 1..Len(states) : varId \in DOMAIN states[j]} :
                    x \in states[k][varId]}]

mergeStates(states) ==
    IF Len(states) = 0 THEN <<>>
    ELSE [varId \in DOMAIN states[1] |->
            UNION {states[k][varId] : k \in {j \in 1..Len(states) : varId \in DOMAIN states[j]}}]

\* findPaths without the visited test; the search is cut at CutDepth edges so
\* that it ends on a cycle
CutDepth == 8

RECURSIVE findPathsNoVisited(_, _, _, _, _)
findPathsNoVisited(targetNodeId, es, currentId, currentPath, visited) ==
    IF currentId = targetNodeId \/ Len(currentPath) >= CutDepth THEN <<currentPath>>
    ELSE LET outgoing == SelectSeq(es, LAMBDA e : e.source = currentId)
             RECURSIVE loop(_)
             loop(i) ==
                 IF i > Len(outgoing) THEN <<>>
                 ELSE findPathsNoVisited(targetNodeId, es, outgoing[i].target,
                                         Append(currentPath, outgoing[i]), visited)
                      \o loop(i + 1)
         IN loop(1)

\* findPaths with one visited set shared by all branches: the set is passed
\* on as it is, not copied, and a node is never taken out of it
RECURSIVE searchSharedVisited(_, _, _, _, _)
searchSharedVisited(targetNodeId, es, currentId, currentPath, visited) ==
    IF currentId = targetNodeId THEN [paths |-> <<currentPath>>, visited |-> visited]
    ELSE LET outgoing == SelectSeq(es, LAMBDA e : e.source = currentId)
             RECURSIVE loop(_, _)
             loop(i, acc) ==
                 IF i > Len(outgoing) THEN acc
                 ELSE IF outgoing[i].target \in acc.visited THEN loop(i + 1, acc)
                 ELSE loop(i + 1,
                           [paths |-> acc.paths \o
                                searchSharedVisited(targetNodeId, es, outgoing[i].target,
                                    Append(currentPath, outgoing[i]), acc.visited).paths,
                            visited |->
                                searchSharedVisited(targetNodeId, es, outgoing[i].target,
                                    Append(currentPath, outgoing[i]), acc.visited).visited])
         IN loop(1, [paths |-> <<>>, visited |-> visited \cup {currentId}])

findPathsSharedVisited(targetNodeId, es, currentId, currentPath, visited) ==
    searchSharedVisited(targetNodeId, es, currentId, currentPath, visited).paths

\* the DFS of calculateNodeState: the edge paths from currentId to the target
RECURSIVE findPaths(_, _, _, _, _)
findPaths(targetNodeId, es, currentId, currentPath, visited) ==
    IF currentId = targetNodeId THEN <<currentPath>>
    ELSE LET vis == visited \cup {currentId}
             outgoing == SelectSeq(es, LAMBDA e : e.source = currentId)
             RECURSIVE loop(_)
             loop(i) ==
                 IF i > Len(outgoing) THEN <<>>
                 ELSE (IF outgoing[i].target \notin vis
                       THEN findPaths(targetNodeId, es, outgoing[i].target,
                                      Append(currentPath, outgoing[i]), vis)
                       ELSE <<>>) \o loop(i + 1)
         IN loop(1)

initialState(vs) == [id \in VarIds(vs) |-> getAllValues(Find(vs, LAMBDA v : v.id = id))]

\* step 3 of calculateNodeState: the state at the end of one path
RECURSIVE WalkPath(_, _, _, _, _)
WalkPath(currentState, path, i, ns, vs) ==
    IF i > Len(path) THEN currentState
    ELSE LET edge == path[i]
             sourceNode == Find(ns, LAMBDA n : n.id = edge.source)
         IN WalkPath(IF /\ sourceNode # Null
                        /\ sourceNode.type = "decision"
                        /\ edge.sourceHandle \in {"yes", "no"}
                     THEN applyExpression(currentState, sourceNode.expression,
                                          edge.sourceHandle = "yes", vs)
                     ELSE currentState,
                     path, i + 1, ns, vs)

pathResults(paths, ns, vs) ==
    [k \in 1..Len(paths) |-> WalkPath(initialState(vs), paths[k], 1, ns, vs)]

IsValidState(state) == \A id \in DOMAIN state : state[id] # {}

\* calculateNodeState returning the full universe whenever no path was found
calculateNodeStateNoPathIsUniverse(targetNodeId, ns, es, vs) ==
    LET root == Find(ns, LAMBDA n : n.type = "root") IN
    IF root = Null THEN <<>>
    ELSE LET paths == findPaths(targetNodeId, es, root.id, <<>>, {}) IN
         IF Len(paths) = 0
         THEN initialState(vs)
         ELSE LET validStates == SelectSeq(pathResults(paths, ns, vs), IsValidState) IN
              IF Len(validStates) = 0 THEN Null ELSE mergeStates(validStates)

calculateNodeState(targetNodeId, ns, es, vs) ==
    LET root == Find(ns, LAMBDA n : n.type = "root") IN
    IF root = Null THEN <<>>
    ELSE LET paths == findPaths(targetNodeId, es, root.id, <<>>, {}) IN
         IF Len(paths) = 0
         THEN IF targetNodeId = root.id THEN initialState(vs) ELSE Null
         ELSE LET validStates == SelectSeq(pathResults(paths, ns, vs), IsValidState) IN
              IF Len(validStates) = 0 THEN Null ELSE mergeStates(validStates)

\* analyzeReachability without the test for null
analyzeReachabilityNoNullTest(ns, es, vs) ==
    {ns[i].id : i \in 1..Len(ns)}

analyzeReachability(ns, es, vs) ==
    {ns[i].id : i \in {k \in 1..Len(ns) : calculateNodeState(ns[k].id, ns, es, vs) # Null}}

-----------------------------------------------------------------------------
(* Evaluation of an expression text: new Function(...argNames,             *)
(* `return ${expression};`)(...argValues).  JavaScript values are strings; *)
(* the booleans and undefined are the three strings below.                 *)

JsTrue == "<true>"
JsFalse == "<false>"
JsUndefined == "<undefined>"
\* the call threw (SyntaxError from new Function, ReferenceError from the call)
Thrown == "<thrown>"

Bool(b) == IF b THEN JsTrue ELSE JsFalse
Truthy(v) == v \notin {JsFalse, JsUndefined}

SyntaxError == [v |-> Thrown, p |-> 0]

\* an identifier is a parameter of the function (scope), a literal, or a
\* ReferenceError when it is evaluated
Resolve(tok, scope) ==
    IF tok \in DOMAIN scope THEN scope[tok]
    ELSE IF tok = "true" THEN JsTrue
    ELSE IF tok = "false" THEN JsFalse
    ELSE Thrown

\* Recursive descent over the JavaScript grammar, lowest precedence first:
\* ||, &&, == and != (left associative), !, primary.  Each operator returns
\* the value v and the position p after what it read (p = 0: SyntaxError).
\* live = FALSE: the operand is parsed but not evaluated (short circuit).
RECURSIVE ParseOr(_, _, _, _)
RECURSIVE ParseOrTail(_, _, _, _, _)
RECURSIVE ParseAnd(_, _, _, _)
RECURSIVE ParseAndTail(_, _, _, _, _)
RECURSIVE ParseEq(_, _, _, _)
RECURSIVE ParseEqTail(_, _, _, _, _)
RECURSIVE ParseUnary(_, _, _, _)

\* what follows a parenthesised expression r: its closing parenthesis
CloseParen(toks, r) ==
    IF r.p = 0 \/ r.p > Len(toks) THEN SyntaxError
    ELSE IF toks[r.p] # ")" THEN SyntaxError
    ELSE [v |-> r.v, p |-> r.p + 1]

ParsePrimary(toks, p, live, scope) ==
    IF p > Len(toks) THEN SyntaxError
    ELSE IF toks[p] = "(" THEN CloseParen(toks, ParseOr(toks, p + 1, live, scope))
    ELSE IF toks[p] \in QuotedTokens
         THEN [v |-> Unquote(toks[p]), p |-> p + 1]
    ELSE IF IsIdentifierToken(toks[p])
         THEN [v |-> IF live THEN Resolve(toks[p], scope) ELSE JsUndefined, p |-> p + 1]
    ELSE SyntaxError

\* ! applied to its operand r
Negate(r) ==
    IF r.p = 0 THEN SyntaxError
    ELSE [v |-> IF r.v = Thrown THEN Thrown ELSE Bool(~Truthy(r.v)), p |-> r.p]

ParseUnary(toks, p, live, scope) ==
    IF p <= Len(toks) /\ toks[p] = "!"
    THEN Negate(ParseUnary(toks, p + 1, live, scope))
    ELSE ParsePrimary(toks, p, live, scope)

\* the operator at p applied to left and its right operand r, then the rest
EqStep(toks, left, p, r, live, scope) ==
    IF r.p = 0 THEN SyntaxError
    ELSE ParseEqTail(toks,
                     IF left = Thrown \/ r.v = Thrown THEN Thrown
                     ELSE IF toks[p] = "==" THEN Bool(left = r.v)
                     ELSE Bool(left # r.v),
                     r.p, live, scope)

ParseEqTail(toks, left, p, live, scope) ==
    IF p <= Len(toks) /\ toks[p] \in {"==", "!="}
    THEN EqStep(toks, left, p, ParseUnary(toks, p + 1, live, scope), live, scope)
    ELSE [v |-> left, p |-> p]

\* the first operand l, then the rest
EqFrom(toks, l, live, scope) ==
    IF l.p = 0 THEN SyntaxError ELSE ParseEqTail(toks, l.v, l.p, live, scope)

ParseEq(toks, p, live, scope) == EqFrom(toks, ParseUnary(toks, p, live, scope), live, scope)

AndStep(toks, left, r, live, scope) ==
    IF r.p = 0 THEN SyntaxError
    ELSE ParseAndTail(toks,
                      IF left = Thrown \/ ~Truthy(left) THEN left ELSE r.v,
                      r.p, live, scope)

ParseAndTail(toks, left, p, live, scope) ==
    IF p <= Len(toks) /\ toks[p] = "&&"
    THEN AndStep(toks, left,
                 ParseEq(toks, p + 1, live /\ left # Thrown /\ Truthy(left), scope),
                 live, scope)
    ELSE [v |-> left, p |-> p]

AndFrom(toks, l, live, scope) ==
    IF l.p = 0 THEN SyntaxError ELSE ParseAndTail(toks, l.v, l.p, live, scope)

ParseAnd(toks, p, live, scope) == AndFrom(toks, ParseEq(toks, p, live, scope), live, scope)

OrStep(toks, left, r, live, scope) ==
    IF r.p = 0 THEN SyntaxError
    ELSE ParseOrTail(toks,
                     IF left = Thrown \/ Truthy(left) THEN left ELSE r.v,
                     r.p, live, scope)

ParseOrTail(toks, left, p, live, scope) ==
    IF p <= Len(toks) /\ toks[p] = "||"
    THEN OrStep(toks, left,
                ParseAnd(toks, p + 1, live /\ left # Thrown /\ ~Truthy(left), scope),
                live, scope)
    ELSE [v |-> left, p |-> p]

OrFrom(toks, l, live, scope) ==
    IF l.p = 0 THEN SyntaxError ELSE ParseOrTail(toks, l.v, l.p, live, scope)

ParseOr(toks, p, live, scope) == OrFrom(toks, ParseAnd(toks, p, live, scope), live, scope)

\* the value of the parse r, a SyntaxError unless it read the whole text
Completed(expression, r) == IF r.p # Len(expression) + 1 THEN Thrown ELSE r.v

\* the value of the call, or Thrown
EvalFunction(expression, scope) ==
    IF expression = <<>> THEN JsUndefined
    ELSE Completed(expression, ParseOr(expression, 1, TRUE, scope))

-----------------------------------------------------------------------------
(* utils/validation.ts: validateExpression.  Its result is                 *)
(* [isValid, error, token, allowed]: error is the kind of the message,     *)
(* token the identifier or value the message quotes, allowed the list of   *)
(* values the message ends with.                                           *)

STANDARD_GLOBALS ==
    {"true", "false", "null", "undefined", "NaN", "Infinity",
     "Math", "Date", "String", "Number", "Boolean", "Array", "Object",
     "parseInt", "parseFloat", "isNaN", "isFinite"}

Valid == [isValid |-> TRUE, error |-> "", token |-> "", allowed |-> <<>>]
Invalid(error, token, allowed) ==
    [isValid |-> FALSE, error |-> error, token |-> token, allowed |-> allowed]

ErrEmptyExpression == "Expression cannot be empty"
ErrSyntax == "Syntax Error"
ErrUnknownIdentifier == "Unknown identifier"
ErrInvalidValue == "Invalid value"

\* new Function(`return ${expression};`) does not throw: the text parses
IsSyntaxOk(expression) ==
    Completed(expression, ParseOr(expression, 1, FALSE, <<>>)) # Thrown

\* expression.match(identifierRegex): the identifiers in the order of the
\* text, the words between quotes included
matches(expression) ==
    [i \in 1..Len(SelectSeq(expression, LAMBDA tok : tok \notin OperatorTokens)) |->
        Unquote(SelectSeq(expression, LAMBDA tok : tok \notin OperatorTokens)[i])]

validIdentifiers(vs) ==
    STANDARD_GLOBALS \cup {vs[i].name : i \in 1..Len(vs)}
        \cup UNION {Range(vs[i].possibleValues) : i \in 1..Len(vs)}

\* comparisonRegex matches at token i: an identifier, == or !=, then a word
\* with or without quotes
IsComparisonAt(expression, i) ==
    /\ i + 2 <= Len(expression)
    /\ IsIdentifierToken(expression[i])
    /\ expression[i + 1] \in {"==", "!="}
    /\ expression[i + 2] \notin OperatorTokens

\* the test of one match: varName is a variable and value is neither a
\* variable name nor one of its possibleValues
IsInvalidValueAlwaysFalse(varName, value, vs) == FALSE

IsInvalidValue(varName, value, vs) ==
    LET variable == Find(vs, LAMBDA v : v.name = varName) IN
    /\ variable # Null
    /\ ~(\E k \in 1..Len(vs) : vs[k].name = value)
    /\ value \notin Range(variable.possibleValues)

\* while ((match = comparisonRegex.exec(expression)) !== null): the search
\* goes on after the end of the last match
RECURSIVE EnumValueCheck(_, _, _)
EnumValueCheck(expression, i, vs) ==
    IF i + 2 > Len(expression) THEN Valid
    ELSE IF ~IsComparisonAt(expression, i) THEN EnumValueCheck(expression, i + 1, vs)
    ELSE IF IsInvalidValue(expression[i], Unquote(expression[i + 2]), vs)
    THEN Invalid(ErrInvalidValue, Unquote(expression[i + 2]),
                 Find(vs, LAMBDA v : v.name = expression[i]).possibleValues)
    ELSE EnumValueCheck(expression, i + 3, vs)

\* the matches the for loop returns an error for; it returns at the first
UnknownIdentifiers(ids, valid) == SelectSeq(ids, LAMBDA id : id \notin valid)

validateExpression(expression, vs) ==
    IF expression = <<>> THEN Invalid(ErrEmptyExpression, "", <<>>)
    ELSE IF ~IsSyntaxOk(expression) THEN Invalid(ErrSyntax, "", <<>>)
    ELSE IF UnknownIdentifiers(matches(expression), validIdentifiers(vs)) # <<>>
    THEN Invalid(ErrUnknownIdentifier,
                 UnknownIdentifiers(matches(expression), validIdentifiers(vs))[1], <<>>)
    ELSE EnumValueCheck(expression, 1, vs)

-----------------------------------------------------------------------------
(* utils/stateAnalysis.ts: formatState *)

\* the values of the model in the order of Array.prototype.sort without
\* comparator (by UTF-16 code units)
CodeUnitOrder == <<"HIGH", "LOW", "MID">>

\* the values left in the order of the variable's domain
sortedValuesNotSorted(s, v) == SelectSeq(v.possibleValues, LAMBDA x : x \in s)

\* Array.from(s.possibleValues).sort() for the set s of variable v
sortedValues(s, v) == SelectSeq(CodeUnitOrder, LAMBDA x : x \in s)

\* values.join(' | ')
RECURSIVE Join(_, _)
Join(values, i) ==
    IF i > Len(values) THEN ""
    ELSE IF i = Len(values) THEN values[i]
    ELSE values[i] \o " | " \o Join(values, i + 1)

\* what a call that throws has in place of its list of lines
ThrownLines == <<Thrown>>

\* one line per variable; state[v.id] of the state null is a TypeError
formatState(state, vs) ==
    IF Len(vs) = 0 THEN <<>>
    ELSE IF state = Null THEN ThrownLines
    ELSE [i \in 1..Len(vs) |->
            LET v == vs[i] IN
            IF v.id \notin DOMAIN state THEN v.name \o ": Unknown"
            ELSE LET values == sortedValues(state[v.id], v) IN
                 IF Len(values) = 0 THEN v.name \o ": Impossible (Contradiction)"
                 ELSE IF Len(values) = 1 THEN v.name \o " = " \o values[1]
                 ELSE IF Len(values) = Len(v.possibleValues) THEN v.name \o ": Any"
                 ELSE v.name \o " = " \o Join(values, 1)]

-----------------------------------------------------------------------------
(* components/ModelChecker.tsx *)

MAX_STEPS == 100

\* edge.sourceHandle === null
HandleNull == "<null>"

\* the cartesian product by reduce/flatMap: the rows in order, the first
\* list varying slowest
RECURSIVE FlatMapRows(_, _, _)

\* the two maps nested the other way round: the last list varies slowest
FlatMapRowsOuterCurr(acc, curr, i) ==
    [k \in 1..(Len(acc) * Len(curr)) |->
        Append(acc[((k - 1) % Len(acc)) + 1], curr[((k - 1) \div Len(acc)) + 1])]

FlatMapRows(acc, curr, i) ==
    IF i > Len(acc) THEN <<>>
    ELSE [k \in 1..Len(curr) |-> Append(acc[i], curr[k])] \o FlatMapRows(acc, curr, i + 1)

RECURSIVE Reduce(_, _, _)
Reduce(args, acc, i) ==
    IF i > Len(args) THEN acc
    ELSE Reduce(args, FlatMapRows(acc, args[i], 1), i + 1)

\* reduce started with [] in place of [[]]
cartesianEmptySeed(args) ==
    IF Len(args) = 0 THEN <<>> ELSE Reduce(args, <<>>, 1)

cartesian(args) ==
    IF Len(args) = 0 THEN <<>> ELSE Reduce(args, << <<>> >>, 1)

\* obj[keys[i]] = val for i in order: a later equal key overwrites
RowObject(keys, row) ==
    [name \in Range(keys) |->
        row[CHOOSE i \in 1..Len(keys) :
                keys[i] = name /\ \A j \in (i+1)..Len(keys) : keys[j] # name]]

combinations(vs) ==
    IF Len(vs) = 0 THEN <<>>
    ELSE LET keys == [i \in 1..Len(vs) |-> vs[i].name]
             values == [i \in 1..Len(vs) |-> vs[i].possibleValues]
             product == cartesian(values)
         IN [r \in 1..Len(product) |-> RowObject(keys, product[r])]

allEnumValues(vs) == UNION {Range(vs[i].possibleValues) : i \in 1..Len(vs)}

isValidIdentifier(str) == IsIdentifierToken(str)

validEnumValues(vs) == {val \in allEnumValues(vs) : isValidIdentifier(val)}

\* argNames/argValues: the keys of the context bound to its values, then the
\* enum values bound to themselves (a later parameter of the same name wins)
Scope(context, vs) ==
    [name \in DOMAIN context \cup validEnumValues(vs) |->
        IF name \in validEnumValues(vs) THEN name ELSE context[name]]

ErrNoRoot == "Error: No Root"
ErrLoop == "Error: Loop Detected"
ErrStuckRoot == "Stuck: Root has no connection"
ErrBrokenLink == "Error: Broken Link"
ErrEmptyCondition == "Error: Empty Condition"
ErrInvalidExpression == "Error: Invalid Expression"
ErrStuckNoPath == "Stuck: No path"
ErrTooManySteps == "Error: Too many steps"
ErrUnknown == "Unknown Error"

FaultResults ==
    {ErrNoRoot, ErrLoop, ErrStuckRoot, ErrBrokenLink, ErrEmptyCondition,
     ErrInvalidExpression, ErrStuckNoPath, ErrTooManySteps, ErrUnknown}

\* visited.add left out
visitedAddForgotten(visited, id) == visited

\* visited.add(currentNode.id)
visitedAdd(visited, id) == visited \cup {id}

\* the branches exchanged
handleIdExchanged(result) == IF Truthy(result) THEN "no" ELSE "yes"

\* const handleId = result ? 'yes' : 'no'
handleIdOf(result) == IF Truthy(result) THEN "yes" ELSE "no"

\* A while loop is its body, run on the loop variables pass after pass as
\* long as the loop is not left (done) and its condition holds.  The passes
\* are run in two halves so that the evaluation stays shallow; passes is at
\* least the number of passes the loop can make.
Passes(ns) == MAX_STEPS + Len(ns) + 2

\* one pass through the body of the while loop of evaluate.  l holds the loop
\* variables currentNode, visited and steps, the result once the function
\* has returned (done), and two lists the code does not keep: trace, the
\* nodes the body was run with, and guards, the decision nodes whose
\* expression was evaluated.
evaluateBody(l, context, ns, es) ==
    LET currentNode == l.currentNode
        entered == Append(l.trace, currentNode.id)
        return(result, guards) ==
            [l EXCEPT !.done = TRUE, !.result = result, !.trace = entered, !.guards = guards]
        continue(next, guards) ==
            [l EXCEPT !.currentNode = next, !.visited = visitedAdd(@, currentNode.id),
                      !.steps = @ + 1, !.trace = entered, !.guards = guards]
    IN
    IF currentNode.id \in l.visited THEN return(ErrLoop, l.guards)
    ELSE IF currentNode.type = "leaf"
    THEN return(IF currentNode.nodeId = "" THEN "Unknown" ELSE currentNode.nodeId, l.guards)
    ELSE IF currentNode.type = "root"
    THEN LET outEdge == Find(es, LAMBDA e : e.source = currentNode.id
                                            /\ e.sourceHandle \in {"out", HandleNull})
         IN IF outEdge = Null THEN return(ErrStuckRoot, l.guards)
            ELSE LET next == Find(ns, LAMBDA n : n.id = outEdge.target) IN
                 IF next = Null THEN return(ErrBrokenLink, l.guards)
                 ELSE continue(next, l.guards)
    ELSE IF currentNode.type = "decision"
    THEN IF currentNode.expression = <<>> THEN return(ErrEmptyCondition, l.guards)
         ELSE LET value == EvalFunction(currentNode.expression, context)
                  evaluated == Append(l.guards, currentNode.id)
              IN IF value = Thrown THEN return(ErrInvalidExpression, evaluated)
                 ELSE LET handleId == handleIdOf(value)
                          outEdge == Find(es, LAMBDA e : e.source = currentNode.id
                                                         /\ e.sourceHandle = handleId)
                      IN IF outEdge = Null THEN return(ErrStuckNoPath, evaluated)
                         ELSE LET next == Find(ns, LAMBDA n : n.id = outEdge.target) IN
                              IF next = Null THEN return(ErrBrokenLink, evaluated)
                              ELSE continue(next, evaluated)
    ELSE continue(currentNode, l.guards)

\* while (currentNode && steps < MAX_STEPS) { body }
RECURSIVE evaluateLoop(_, _, _, _, _)
evaluateLoop(l, passes, context, ns, es) ==
    IF l.done \/ l.steps >= MAX_STEPS THEN l
    ELSE IF passes = 1 THEN evaluateBody(l, context, ns, es)
    ELSE evaluateLoop(evaluateLoop(l, passes \div 2, context, ns, es),
                      passes - (passes \div 2), context, ns, es)

\* what evaluate returns once the loop is over with the loop variables l:
\* the result of the return inside the loop, else the text after the loop
evaluateEnd(l) ==
    [result |-> IF l.done THEN l.result
                ELSE IF l.steps >= MAX_STEPS THEN ErrTooManySteps
                ELSE ErrUnknown,
     trace |-> l.trace, guards |-> l.guards]

\* evaluate(context) with what its loop did; context is the combination and
\* the scope of the guards is built from it
evaluateRun(context, ns, es, vs) ==
    LET root == Find(ns, LAMBDA n : n.type = "root") IN
    IF root = Null THEN [result |-> ErrNoRoot, trace |-> <<>>, guards |-> <<>>]
    ELSE evaluateEnd(evaluateLoop([currentNode |-> root, visited |-> {}, steps |-> 0,
                                   done |-> FALSE, result |-> ErrUnknown,
                                   trace |-> <<>>, guards |-> <<>>],
                                  Passes(ns), Scope(context, vs), ns, es))

evaluate(context, ns, es, vs) == evaluateRun(context, ns, es, vs).result

\* checkInvariants without the test of the condition
checkInvariantsIgnoresCondition(context, result, invs, vs) ==
    SelectSeq(invs, LAMBDA inv : result # inv.expectedResult)

\* the invariants (in declaration order) that the row violates
checkInvariants(context, result, invs, vs) ==
    SelectSeq(invs, LAMBDA inv :
        LET conditionMet == EvalFunction(inv.condition, Scope(context, vs)) IN
        conditionMet # Thrown /\ Truthy(conditionMet) /\ result # inv.expectedResult)

\* the run given up at the first row whose walk ends in a fault
newResultsUntilFault(ns, es, vs) ==
    LET combos == combinations(vs)
        faulty == {i \in 1..Len(combos) : evaluate(combos[i], ns, es, vs) \in FaultResults}
        n == IF faulty = {} THEN Len(combos)
             ELSE (CHOOSE i \in faulty : \A j \in faulty : i <= j) - 1
    IN [i \in 1..n |-> [combo |-> combos[i], result |-> evaluate(combos[i], ns, es, vs)]]

\* what handleRun's timer stores
newResults(ns, es, vs) ==
    LET combos == combinations(vs) IN
    [i \in 1..Len(combos) |-> [combo |-> combos[i],
                               result |-> evaluate(combos[i], ns, es, vs)]]

displayResults ==
    [i \in 1..Len(modelCheckerResults) |->
        [combo |-> modelCheckerResults[i].combo,
         result |-> modelCheckerResults[i].result,
         violations |-> checkInvariants(modelCheckerResults[i].combo,
                                        modelCheckerResults[i].result,
                                        invariants, variables)]]

-----------------------------------------------------------------------------
(* components/InspectorPanel.tsx: SimulationPanel.runSimulation.  A        *)
(* SimulationResult is [nodeIds, edgeIds, result, isError]; its display    *)
(* text, which nothing reads back, is left out.                            *)

SimNoRoot == "Error: No Root"
SimLoop == "Loop Detected"
SimStuck == "Stuck"
SimEmptyCondition == "Empty Condition"
SimInvalidExpression == "Invalid Expression"
SimTimeout == "Timeout"
\* let result: string | null = null
ResultNull == "<null result>"

\* argNames/argValues of runSimulation: the keys of values, then every enum
\* value bound to itself
SimScope(values, vs) ==
    [name \in DOMAIN values \cup allEnumValues(vs) |->
        IF name \in allEnumValues(vs) THEN name ELSE values[name]]

\* new Function(...argNames, ...) throws a SyntaxError when a parameter name
\* is not an identifier; otherwise the value of the call
EvalSimulation(expression, values, vs) ==
    IF \E val \in allEnumValues(vs) : ~isValidIdentifier(val) THEN Thrown
    ELSE EvalFunction(expression, SimScope(values, vs))

\* the loop runs without looking at steps
stepsBelowBoundNotTested(steps) == TRUE

\* steps < MAX_STEPS in the while condition
stepsBelowBound(steps) == steps < MAX_STEPS

\* edgeIds.add left out
edgeIdsAddForgotten(edgeIds, id) == edgeIds

\* edgeIds.add(outEdge.id)
edgeIdsAdd(edgeIds, id) == edgeIds \cup {id}

\* one pass through the body of the while loop of runSimulation.  l holds
\* the loop variables currentNode, visited and steps, whether the loop was
\* left by break (done), nodeIds, edgeIds, result and isError as assigned so
\* far, and two lists the code does not keep: entered, the nodes the body
\* was run with, and followed, the out edges taken.
simulationBody(l, values, ns, es, vs) ==
    LET currentNode == l.currentNode
        l1 == [l EXCEPT !.nodeIds = @ \cup {currentNode.id},
                        !.entered = Append(@, currentNode.id)]
        l2 == [l1 EXCEPT !.visited = @ \cup {currentNode.id}, !.steps = @ + 1]
        fault(result) == [l2 EXCEPT !.done = TRUE, !.result = result, !.isError = TRUE]
        follow(outEdge) ==
            [l2 EXCEPT !.edgeIds = edgeIdsAdd(@, outEdge.id),
                       !.followed = Append(@, outEdge),
                       !.currentNode = Find(ns, LAMBDA n : n.id = outEdge.target)]
    IN
    IF currentNode.id \in l.visited
    THEN [l1 EXCEPT !.done = TRUE, !.result = SimLoop, !.isError = TRUE]
    ELSE IF currentNode.type = "leaf"
    THEN [l2 EXCEPT !.done = TRUE,
                    !.result = IF currentNode.nodeId = "" THEN "Unknown"
                               ELSE currentNode.nodeId]
    ELSE IF currentNode.type = "root"
    THEN LET outEdge == Find(es, LAMBDA e : e.source = currentNode.id
                                            /\ e.sourceHandle \in {"out", HandleNull})
         IN IF outEdge = Null THEN fault(SimStuck) ELSE follow(outEdge)
    ELSE IF currentNode.type = "decision"
    THEN IF currentNode.expression = <<>> THEN fault(SimEmptyCondition)
         ELSE LET evalResult == EvalSimulation(currentNode.expression, values, vs) IN
              IF evalResult = Thrown THEN fault(SimInvalidExpression)
              ELSE LET handleId == IF Truthy(evalResult) THEN "yes" ELSE "no"
                       outEdge == Find(es, LAMBDA e : e.source = currentNode.id
                                                      /\ e.sourceHandle = handleId)
                   IN IF outEdge = Null THEN fault(SimStuck) ELSE follow(outEdge)
    ELSE l2

\* while (currentNode && steps < MAX_STEPS) { body }
RECURSIVE simulationLoop(_, _, _, _, _, _)
simulationLoop(l, passes, values, ns, es, vs) ==
    IF l.done \/ l.currentNode = Null \/ ~stepsBelowBound(l.steps) THEN l
    ELSE IF passes = 1 THEN simulationBody(l, values, ns, es, vs)
    ELSE simulationLoop(simulationLoop(l, passes \div 2, values, ns, es, vs),
                        passes - (passes \div 2), values, ns, es, vs)

\* what follows the loop, with the loop variables l: steps at the bound
\* overwrites result and isError
simulationEnd(l) ==
    [nodeIds |-> l.nodeIds, edgeIds |-> l.edgeIds,
     result |-> IF l.steps >= MAX_STEPS THEN SimTimeout ELSE l.result,
     isError |-> IF l.steps >= MAX_STEPS THEN TRUE ELSE l.isError,
     entered |-> l.entered, followed |-> l.followed]

\* runSimulation(values) with what its loop did
simulationRun(values, ns, es, vs) ==
    LET root == Find(ns, LAMBDA n : n.type = "root") IN
    IF root = Null
    THEN [nodeIds |-> {}, edgeIds |-> {}, result |-> SimNoRoot, isError |-> TRUE,
          entered |-> <<>>, followed |-> <<>>]
    ELSE simulationEnd(simulationLoop([currentNode |-> root, visited |-> {}, steps |-> 0,
                                       done |-> FALSE, nodeIds |-> {}, edgeIds |-> {},
                                       result |-> ResultNull, isError |-> FALSE,
                                       entered |-> <<>>, followed |-> <<>>],
                                      Passes(ns), values, ns, es, vs))

\* the SimulationResult of a run
SimulationResult(run) ==
    [nodeIds |-> run.nodeIds, edgeIds |-> run.edgeIds,
     result |-> run.result, isError |-> run.isError]

runSimulation(values, ns, es, vs) == SimulationResult(simulationRun(values, ns, es, vs))

-----------------------------------------------------------------------------
(* The projects the analyses are run on *)

VarTemp == [id |-> "v1", name |-> "Temp", possibleValues |-> <<"LOW", "MID", "HIGH">>]
VarFan == [id |-> "v2", name |-> "Fan", possibleValues |-> <<"LOW", "HIGH">>]

G(a, op, b) == <<a, op, b>>

\* guard expressions of a decision node; <<>> is the empty expression
SimpleGuards ==
    {<<>>, G("Temp", "==", "HIGH"), G("Temp", "==", "LOW"), G("Temp", "!=", "HIGH"),
     G("Fan", "==", "LOW"), G("Temp", "==", "'HIGH'"),
     G("Temp", "==", "HIGH") \o <<"&&">> \o G("Fan", "==", "LOW")}

ComplexGuards ==
    {G("Temp", "==", "HIGH") \o <<"||">> \o G("Temp", "==", "LOW"),
     <<"(">> \o G("Temp", "==", "HIGH") \o <<")">>,
     <<"!", "(">> \o G("Temp", "!=", "HIGH") \o <<")">>,
     G("Temp", "==", "Fan")}

\* guards whose evaluation throws: a SyntaxError, a ReferenceError
FailingGuards == {<<"Temp", "==">>, G("Temp", "==", "Bogus")}

Gone == "gone"          \* the id of a node that is not in nodes
None == "<no edge>"

RootNode == [id |-> "root", type |-> "root", nodeId |-> "R0", expression |-> <<>>]
Decision(id, nodeId, expression) ==
    [id |-> id, type |-> "decision", nodeId |-> nodeId, expression |-> expression]
Leaf(id, nodeId) == [id |-> id, type |-> "leaf", nodeId |-> nodeId, expression |-> <<>>]

NodeList(g1, g2) ==
    <<RootNode, Decision("d1", "D1", g1), Decision("d2", "D2", g2),
      Leaf("l1", "L1"), Leaf("l2", "L2")>>

\* the source handles of the three inner nodes, in the order of the edge list
Slots ==
    <<[source |-> "root", sourceHandle |-> "out"],
      [source |-> "d1", sourceHandle |-> "yes"],
      [source |-> "d1", sourceHandle |-> "no"],
      [source |-> "d2", sourceHandle |-> "yes"],
      [source |-> "d2", sourceHandle |-> "no"]>>

EdgeIds == <<"e1", "e2", "e3", "e4", "e5">>

\* the edge list with one edge per slot whose target is not None
EdgeList(t) ==
    SelectSeq([i \in 1..Len(Slots) |->
                  [id |-> EdgeIds[i], source |-> Slots[i].source,
                   target |-> t[i], sourceHandle |-> Slots[i].sourceHandle]],
              LAMBDA e : e.target # None)

\* the choices of a target per slot, within pools[i], with at most maxEdges edges
Graphs(pools, maxEdges) ==
    {t \in [1..Len(Slots) -> {None, Gone, "d1", "d2", "l1", "l2"}] :
        /\ \A i \in 1..Len(Slots) : t[i] \in pools[i] /\ t[i] # Slots[i].source
        /\ Cardinality({i \in 1..Len(Slots) : t[i] # None}) <= maxEdges}

NodeIds(ns) == {ns[i].id : i \in 1..Len(ns)}

-----------------------------------------------------------------------------
(* The state-constraint engine and the reachability analyzer at work:       *)
(* the Inspector shows calculateNodeState of the selected node, the        *)
(* TreeEditor effect stores the nodes analyzeReachability leaves out.      *)

EngineTargets ==
    <<{None, "d1", "l1"}, {None, "d2", "l1"}, {None, "d2", "l1"},
      {None, "d1", "l1", "l2"}, {None, "d1", "l1"}>>

\* a loaded project: the variables, the nodes with their guards, the edges
Project(varLists, guards1, guards2, pools, maxEdges) ==
    /\ variables \in varLists
    /\ \E g1 \in guards1, g2 \in guards2 : nodes = NodeList(g1, g2)
    /\ \E t \in Graphs(pools, maxEdges) : edges = EdgeList(t)

Init ==
    /\ Project({<<>>, <<VarTemp, VarFan>>},
               SimpleGuards \cup ComplexGuards,
               {<<>>, G("Temp", "==", "LOW"), G("Fan", "==", "LOW")},
               EngineTargets, MaxEdges)
    /\ invariants = <<>>
    /\ modelCheckerResults = <<>>
    /\ isRunning = FALSE
    /\ selectedNode = NoSelection
    /\ unreachableNodeIds = {}
    /\ testCases = <<>>
    /\ simulationResults = <<>>
    /\ formatCall = NoCall
    /\ PanelsIdle

\* InspectorPanel: the user selects node n; analysis is recomputed
SelectNode(n) ==
    /\ n \in NodeIds(nodes)
    /\ selectedNode' = n
    /\ UNCHANGED <<variables, nodes, edges, invariants, modelCheckerResults,
                   isRunning, unreachableNodeIds>>
    /\ UNCHANGED <<simulationVars, formatCall, panelVars>>

\* InspectorPanel.analysis for a selected node: the state formatState renders
analysis ==
    IF selectedNode = NoSelection THEN Null
    ELSE calculateNodeState(selectedNode, nodes, edges, variables)

\* InspectorPanel.analysis for a selected node: its lines, or ThrownLines
\* when the computation of the memo throws
analysisLines ==
    IF selectedNode = NoSelection THEN <<>>
    ELSE formatState(calculateNodeState(selectedNode, nodes, edges, variables), variables)

\* TreeEditor: the reachability effect fires
ReachabilityEffect ==
    /\ Len(nodes) # 0
    /\ unreachableNodeIds' =
          LET reachable == analyzeReachability(nodes, edges, variables) IN
          {nodes[i].id : i \in {k \in 1..Len(nodes) :
                                   nodes[k].id \notin reachable /\ nodes[k].type # "root"}}
    /\ UNCHANGED <<variables, nodes, edges, invariants, modelCheckerResults,
                   isRunning, selectedNode>>
    /\ UNCHANGED <<simulationVars, formatCall, panelVars>>

Next ==
    \/ \E n \in NodeIds(nodes) : SelectNode(n)
    \/ ReachabilityEffect

Spec == Init /\ [][Next]_vars

-----------------------------------------------------------------------------
(* Reference notions the properties are stated with *)

RootId == Find(nodes, LAMBDA n : n.type = "root").id

\* the nodes with a directed edge path from the root (the root included)
RECURSIVE Closure(_)
Closure(S) ==
    LET T == S \cup {edges[i].target : i \in {k \in 1..Len(edges) : edges[k].source \in S}}
    IN IF T = S THEN S ELSE Closure(T)

Connected == Closure({RootId})

\* the simple edge paths from the root to node n, found backwards from n:
\* no node occurs twice on a path
RECURSIVE SimplePathsBack(_, _)
SimplePathsBack(n, later) ==
    IF n = RootId THEN {<<>>}
    ELSE UNION {{Append(p, edges[i]) : p \in SimplePathsBack(edges[i].source, later \cup {n})} :
                  i \in {k \in 1..Len(edges) :
                            edges[k].target = n /\ edges[k].source \notin later \cup {n}}}

SimplePaths(n) == SimplePathsBack(n, {})

\* the nodes on a path that starts at the root
PathNodes(p) == <<RootId>> \o [i \in 1..Len(p) |-> p[i].target]

NoRepeat(s) == \A i, j \in 1..Len(s) : i # j => s[i] # s[j]

\* a comparison of a declared variable with one enum value, quoted or not:
\* Var == Value, Var != Value
IsSimpleComparison(part) ==
    /\ Len(part) = 3
    /\ \E k \in 1..Len(variables) : variables[k].name = part[1]
    /\ part[2] \in {"==", "!="}
    /\ \A k \in 1..Len(variables) : variables[k].name # part[3]
    /\ Unquote(part[3]) \in UNION {Range(variables[k].possibleValues) : k \in 1..Len(variables)}

\* the state after one simple comparison on variable Var is known to hold
\* (holds = TRUE) or known not to hold
NarrowBy(state, part, holds) ==
    LET id == (CHOOSE k \in 1..Len(variables) : variables[k].name = part[1])
        var == variables[id].id
        value == Unquote(part[3])
    IN [state EXCEPT ![var] = IF (part[2] = "==") = holds
                              THEN state[var] \cap {value}
                              ELSE state[var] \ {value}]

RECURSIVE NarrowByAll(_, _, _)
NarrowByAll(state, parts, i) ==
    IF i > Len(parts) THEN state
    ELSE NarrowByAll(IF IsSimpleComparison(parts[i]) THEN NarrowBy(state, parts[i], TRUE)
                     ELSE state, parts, i + 1)

\* the narrowing by the simple equality guards along a path: on a yes edge
\* the simple conjuncts of the guard, on a no edge the guard if it is one
\* simple comparison; everything else narrows nothing
RECURSIVE SimpleNarrowing(_, _, _)
SimpleNarrowing(state, p, i) ==
    IF i > Len(p) THEN state
    ELSE LET source == Find(nodes, LAMBDA n : n.id = p[i].source)
             guard == source.expression
         IN SimpleNarrowing(
              IF source.type = "decision" /\ p[i].sourceHandle = "yes"
              THEN NarrowByAll(state, SplitAnd(guard), 1)
              ELSE IF source.type = "decision" /\ p[i].sourceHandle = "no"
                      /\ IsSimpleComparison(guard)
              THEN NarrowBy(state, guard, FALSE)
              ELSE state,
              p, i + 1)

Universe == [k \in VarIds(variables) |->
                Range(Find(variables, LAMBDA v : v.id = k).possibleValues)]

Contradictory(state) == \E k \in DOMAIN state : state[k] = {}

\* the state the engine computes along one path
PathState(p) == WalkPath(initialState(variables), p, 1, nodes, variables)

HasCycle == \E n \in Connected : n \in Closure({edges[i].target : i \in
                  {k \in 1..Len(edges) : edges[k].source = n}})

-----------------------------------------------------------------------------
(* Properties of the state-constraint engine *)

\* C1: no false "unreachable".  For every combination whose Model Checker
\* walk enters the selected node, the engine's state of that node is not
\* null and contains the value of every variable of the combination.
C1_NoFalseUnreachable ==
    selectedNode # NoSelection =>
        \A i \in 1..Len(combinations(variables)) :
            LET combo == combinations(variables)[i]
                run == evaluateRun(combo, nodes, edges, variables)
            IN selectedNode \in Range(run.trace) =>
                 /\ analysis # Null
                 /\ \A k \in 1..Len(variables) :
                        combo[variables[k].name] \in analysis[variables[k].id]

\* C2: a node all of whose simple paths are contradictory by their simple
\* equality guards has the state null.
C2_ContradictionIsNull ==
    selectedNode # NoSelection =>
        ((\A p \in SimplePaths(selectedNode) :
              Contradictory(SimpleNarrowing(Universe, p, 1)))
            => analysis = Null)

C2_Witness ==
    /\ selectedNode # NoSelection
    /\ SimplePaths(selectedNode) # {}
    /\ \A p \in SimplePaths(selectedNode) : Contradictory(SimpleNarrowing(Universe, p, 1))
    /\ \E p \in SimplePaths(selectedNode) : Len(p) = 3
    /\ analysis = Null

\* C3: when some simple path to the node is valid, the state of the node is,
\* per variable, the union of the states along the valid paths; the
\* contradictory paths contribute nothing.
C3_UnionOfValidPaths ==
    selectedNode # NoSelection =>
        LET valid == {p \in SimplePaths(selectedNode) : ~Contradictory(PathState(p))} IN
        valid # {} =>
            /\ analysis # Null
            /\ DOMAIN analysis = VarIds(variables)
            /\ \A k \in VarIds(variables) :
                   analysis[k] = UNION {PathState(p)[k] : p \in valid}

\* two valid paths with different states meet in the selected node
C3_Witness ==
    /\ selectedNode # NoSelection
    /\ analysis # Null
    /\ \E p, q \in SimplePaths(selectedNode) :
          /\ ~Contradictory(PathState(p)) /\ ~Contradictory(PathState(q))
          /\ \E k \in VarIds(variables) :
                /\ PathState(p)[k] # PathState(q)[k]
                /\ analysis[k] = PathState(p)[k] \cup PathState(q)[k]
                /\ analysis[k] # PathState(p)[k] \cap PathState(q)[k]

\* C4: a node other than the root without a directed path from the root is
\* not in analyzeReachability's result, its state is null, and the
\* reachability effect lists it as unreachable.
C4_NoPathIsUnreachable ==
    \A n \in NodeIds(nodes) \ (Connected \cup {RootId}) :
        /\ n \notin analyzeReachability(nodes, edges, variables)
        /\ selectedNode = n => analysis = Null
        /\ unreachableNodeIds # {} => n \in unreachableNodeIds

C4_Witness ==
    /\ Len(variables) > 0
    /\ \E n \in NodeIds(nodes) \ Connected :
          /\ n \in unreachableNodeIds
          /\ selectedNode = n
          /\ \E i \in 1..Len(edges) : edges[i].target = n
    /\ \E n \in Connected \ {RootId} : n \notin unreachableNodeIds

AllGuardsEmpty == \A i \in 1..Len(nodes) : nodes[i].expression = <<>>

\* C5: without variables, or with only empty guards, analyzeReachability
\* returns exactly the nodes with a directed path from the root.
C5_ConnectivityOnly ==
    (Len(variables) = 0 \/ AllGuardsEmpty) =>
        /\ analyzeReachability(nodes, edges, variables) = Connected \cap NodeIds(nodes)
        /\ unreachableNodeIds \in {{}, NodeIds(nodes) \ Connected}

\* a cycle below the root, a node outside, and the effect has run
C5_Witness ==
    /\ Len(variables) = 0
    /\ ~AllGuardsEmpty
    /\ HasCycle
    /\ unreachableNodeIds # {}
    /\ unreachableNodeIds = NodeIds(nodes) \ Connected
    /\ Cardinality(Connected) >= 3

\* C6: the path search ends on every graph: a path never enters a node that
\* is already on it, so no path is longer than the number of nodes.
C6_PathSearchIsBounded ==
    selectedNode # NoSelection =>
        LET paths == findPaths(selectedNode, edges, RootId, <<>>, {}) IN
        \A i \in 1..Len(paths) :
            /\ NoRepeat(PathNodes(paths[i]))
            /\ Len(paths[i]) < Cardinality(NodeIds(nodes) \cup Connected)

C6_Witness ==
    /\ HasCycle
    /\ selectedNode \in {"d1", "d2"}
    /\ analysis # Null
    /\ unreachableNodeIds # {}
    /\ Len(findPaths(selectedNode, edges, RootId, <<>>, {})) >= 1

-----------------------------------------------------------------------------
(* The Model Checker at work: Run Check starts a timer that stores one row *)
(* per combination; the violations shown are computed from the stored     *)
(* rows and the current invariants.                                        *)

\* handleRun: the button is disabled while a run is pending or without variables
HandleRun ==
    /\ ~isRunning
    /\ Len(variables) # 0
    /\ isRunning' = TRUE
    /\ UNCHANGED <<variables, nodes, edges, invariants, modelCheckerResults,
                   selectedNode, unreachableNodeIds>>
    /\ UNCHANGED <<simulationVars, formatCall, panelVars>>

\* the timer of handleRun fires (the project is the one handleRun saw: no
\* action of these specifications changes variables, nodes or edges)
RunTimer ==
    /\ isRunning
    /\ modelCheckerResults' = newResults(nodes, edges, variables)
    /\ isRunning' = FALSE
    /\ UNCHANGED <<variables, nodes, edges, invariants, selectedNode, unreachableNodeIds>>
    /\ UNCHANGED <<simulationVars, formatCall, panelVars>>

CheckerTargets ==
    <<{None, "d1", Gone}, {None, "d2", "l1", Gone}, {None, "d2", "l2"},
      {None, "d1", "l1"}, {None, "d1", "l2", Gone}>>

CheckerGuards1 ==
    {<<>>, G("Temp", "==", "HIGH"), G("Temp", "==", "Fan"),
     G("Temp", "==", "HIGH") \o <<"&&">> \o G("Fan", "==", "LOW"),
     <<"!", "(">> \o G("Temp", "!=", "HIGH") \o <<")">>} \cup FailingGuards

CheckerGuards2 == {<<>>, G("Fan", "==", "LOW")}

\* a project without root node (an imported file)
NoRootProject ==
    /\ variables = <<VarTemp>>
    /\ nodes = Tail(NodeList(G("Temp", "==", "HIGH"), <<>>))
    /\ edges \in {EdgeList(t) : t \in Graphs(CheckerTargets, 1)}

InitChecker ==
    /\ \/ Project({<<VarTemp>>, <<VarTemp, VarFan>>}, CheckerGuards1, CheckerGuards2,
                  CheckerTargets, Len(Slots))
       \/ NoRootProject
    /\ invariants = <<>>
    /\ modelCheckerResults = <<>>
    /\ isRunning = FALSE
    /\ selectedNode = NoSelection
    /\ unreachableNodeIds = {}
    /\ testCases = <<>>
    /\ simulationResults = <<>>
    /\ formatCall = NoCall
    /\ PanelsIdle

NextChecker == HandleRun \/ RunTimer

SpecChecker == InitChecker /\ [][NextChecker]_vars

-----------------------------------------------------------------------------
(* Editing the invariants between runs *)

InvariantIds == <<"i1", "i2", "i3">>

\* ModelChecker.validateCondition: no error is set for the condition
validateCondition(condition) ==
    \/ condition = <<>>
    \/ \A i \in 1..Len(condition) :
          IsIdentifierToken(condition[i]) =>
              condition[i] \in {variables[k].name : k \in 1..Len(variables)}
                               \cup allEnumValues(variables)
                               \cup {"true", "false", "null", "undefined", "and", "or", "not", "in"}

\* conditions the user types, results the user picks among the leaves
ConditionPool ==
    {G("Temp", "==", "HIGH"), G("Fan", "==", "LOW"),
     G("Temp", "==", "HIGH") \o <<"||">> \o G("Fan", "==", "'LOW'")}

leafOptions == {nodes[i].nodeId : i \in {k \in 1..Len(nodes) : nodes[k].type = "leaf"}}

\* crypto.randomUUID(): an id no invariant has
FreshId ==
    InvariantIds[CHOOSE i \in 1..Len(InvariantIds) :
        /\ \A k \in 1..Len(invariants) : invariants[k].id # InvariantIds[i]
        /\ \A j \in 1..(i-1) : \E k \in 1..Len(invariants) : invariants[k].id = InvariantIds[j]]

\* handleAddInvariant with the form filled in
HandleAddInvariant(condition, expectedResult) ==
    /\ Len(invariants) < MaxInvariants
    /\ condition # <<>> /\ expectedResult # ""
    /\ validateCondition(condition)
    /\ invariants' = Append(invariants, [id |-> FreshId, condition |-> condition,
                                         expectedResult |-> expectedResult])
    /\ UNCHANGED <<variables, nodes, edges, modelCheckerResults, isRunning,
                   selectedNode, unreachableNodeIds>>
    /\ UNCHANGED <<simulationVars, formatCall, panelVars>>

\* handleEdit of invariant number k, then handleUpdateInvariant
HandleUpdateInvariant(k, condition, expectedResult) ==
    /\ k \in 1..Len(invariants)
    /\ condition # <<>> /\ expectedResult # ""
    /\ validateCondition(condition)
    /\ invariants' = [i \in 1..Len(invariants) |->
                        IF invariants[i].id = invariants[k].id
                        THEN [id |-> invariants[i].id, condition |-> condition,
                              expectedResult |-> expectedResult]
                        ELSE invariants[i]]
    /\ UNCHANGED <<variables, nodes, edges, modelCheckerResults, isRunning,
                   selectedNode, unreachableNodeIds>>
    /\ UNCHANGED <<simulationVars, formatCall, panelVars>>

\* removeInvariant that also drops the stored rows
RemoveInvariantDropsRows(k) ==
    /\ k \in 1..Len(invariants)
    /\ invariants' = SelectSeq(invariants, LAMBDA inv : inv.id # invariants[k].id)
    /\ modelCheckerResults' = <<>>
    /\ UNCHANGED <<variables, nodes, edges, isRunning, selectedNode, unreachableNodeIds>>
    /\ UNCHANGED <<simulationVars, formatCall, panelVars>>

\* removeInvariant(id) of invariant number k
RemoveInvariant(k) ==
    /\ k \in 1..Len(invariants)
    /\ invariants' = SelectSeq(invariants, LAMBDA inv : inv.id # invariants[k].id)
    /\ UNCHANGED <<variables, nodes, edges, modelCheckerResults, isRunning,
                   selectedNode, unreachableNodeIds>>
    /\ UNCHANGED <<simulationVars, formatCall, panelVars>>

InvariantTargets ==
    <<{"d1"}, {"d2", "l1", "l2"}, {None, "d2", "l2"}, {"l1"}, {"d1", "l2"}>>

\* an invariant that came with the project and whose condition names a
\* variable that is not declared
ImportedInvariant == [id |-> "i3", condition |-> G("Mode", "==", "HIGH"), expectedResult |-> "L1"]

InitInvariants ==
    /\ Project({<<VarTemp, VarFan>>}, {G("Temp", "==", "HIGH"), G("Temp", "==", "Fan")},
               {G("Fan", "==", "LOW")}, InvariantTargets, Len(Slots))
    /\ invariants \in {<<>>, <<ImportedInvariant>>}
    /\ modelCheckerResults = <<>>
    /\ isRunning = FALSE
    /\ selectedNode = NoSelection
    /\ unreachableNodeIds = {}
    /\ testCases = <<>>
    /\ simulationResults = <<>>
    /\ formatCall = NoCall
    /\ PanelsIdle

NextInvariants ==
    \/ HandleRun
    \/ RunTimer
    \/ \E condition \in ConditionPool, expectedResult \in leafOptions :
          HandleAddInvariant(condition, expectedResult)
    \/ \E k \in 1..Len(invariants), condition \in ConditionPool, expectedResult \in leafOptions :
          HandleUpdateInvariant(k, condition, expectedResult)
    \/ \E k \in 1..Len(invariants) : RemoveInvariant(k)

SpecInvariants == InitInvariants /\ [][NextInvariants]_vars

-----------------------------------------------------------------------------
(* The Simulation at work: Run this case stores the result of one test case *)

\* handleRunSingleCase(tc) for test case number k
HandleRunSingleCase(k) ==
    /\ k \in 1..Len(testCases)
    /\ simulationResults' =
          LET tc == testCases[k]
              result == runSimulation(tc.values, nodes, edges, variables)
          IN [id \in DOMAIN simulationResults \cup {tc.id} |->
                 IF id = tc.id THEN result ELSE simulationResults[id]]
    /\ UNCHANGED <<variables, nodes, edges, invariants, modelCheckerResults, isRunning,
                   selectedNode, unreachableNodeIds, testCases, formatCall, panelVars>>

\* a chain root -> c1 -> ... -> cn of decision nodes joined by their yes
\* edges, each with the guard Temp == HIGH, and the leaf l1
ChainId(i) == IF i = 0 THEN "root" ELSE "c" \o ToString(i)

ChainNodes(n) ==
    <<RootNode>>
    \o [i \in 1..n |-> Decision(ChainId(i), "C" \o ToString(i), G("Temp", "==", "HIGH"))]
    \o <<Leaf("l1", "L1")>>

\* the yes edge of cn leads to last: the leaf, a node that is gone, the
\* first decision node, or nowhere (None: the edge is missing)
ChainEdges(n, last) ==
    SelectSeq([k \in 1..(n + 1) |->
                  [id |-> "k" \o ToString(k), source |-> ChainId(k - 1),
                   target |-> IF k <= n THEN ChainId(k) ELSE last,
                   sourceHandle |-> IF k = 1 THEN "out" ELSE "yes"]],
              LAMBDA e : e.target # None)

\* chains whose walk enters a few nodes less than MAX_STEPS, exactly
\* MAX_STEPS, and more
ChainLengths == (MAX_STEPS - 3)..(MAX_STEPS + 1)

ChainProject ==
    /\ variables = <<VarTemp>>
    /\ \E n \in ChainLengths, last \in {"l1", Gone, "c1", None} :
          /\ nodes = ChainNodes(n)
          /\ edges = ChainEdges(n, last)

SimulationGuards1 == {<<>>, G("Temp", "==", "HIGH"), G("Temp", "==", "Fan"), <<"Temp", "==">>}

\* one test case that assigns every variable
InitSimulation ==
    /\ \/ Project({<<VarTemp, VarFan>>}, SimulationGuards1, {G("Fan", "==", "LOW")},
                  CheckerTargets, Len(Slots))
       \/ NoRootProject
       \/ ChainProject
    /\ \E values \in Range(combinations(variables)) :
          testCases = <<[id |-> "t1", values |-> values]>>
    /\ simulationResults = <<>>
    /\ formatCall = NoCall
    /\ PanelsIdle
    /\ invariants = <<>>
    /\ modelCheckerResults = <<>>
    /\ isRunning = FALSE
    /\ selectedNode = NoSelection
    /\ unreachableNodeIds = {}

NextSimulation ==
    \/ \E k \in 1..Len(testCases) : HandleRunSingleCase(k)
    \/ HandleRun
    \/ RunTimer

SpecSimulation == InitSimulation /\ [][NextSimulation]_vars

-----------------------------------------------------------------------------
(* The Model Checker run on projects with zero to MaxVariables variables,   *)
(* each with zero to three values                                          *)

VariablePool ==
    <<[id |-> "v1", name |-> "Temp"], [id |-> "v2", name |-> "Fan"],
      [id |-> "v3", name |-> "Mode"], [id |-> "v4", name |-> "Door"],
      [id |-> "v5", name |-> "Lamp"]>>

ValuePool == <<"LOW", "MID", "HIGH">>

\* variable number i with the first n values
Var(i, n) ==
    [id |-> VariablePool[i].id, name |-> VariablePool[i].name,
     possibleValues |-> SubSeq(ValuePool, 1, n)]

VariableLists ==
    UNION {{[i \in 1..k |-> Var(i, size[i])] : size \in [1..k -> 0..Len(ValuePool)]} :
           k \in 0..MaxVariables}

InitCombinations ==
    /\ variables \in VariableLists
    /\ nodes = NodeList(G("Temp", "==", "HIGH"), <<>>)
    /\ edges = EdgeList(<<"d1", "l1", "l2", None, None>>)
    /\ invariants = <<>>
    /\ modelCheckerResults = <<>>
    /\ isRunning = FALSE
    /\ selectedNode = NoSelection
    /\ unreachableNodeIds = {}
    /\ testCases = <<>>
    /\ simulationResults = <<>>
    /\ formatCall = NoCall
    /\ PanelsIdle

SpecCombinations == InitCombinations /\ [][NextChecker]_vars

-----------------------------------------------------------------------------
(* formatState called with the states a list of variables can have: each   *)
(* variable absent or with a subset of its domain                          *)

NodeStates(vs) ==
    UNION {{state \in [D -> SUBSET Range(ValuePool)] :
               \A i \in 1..Len(vs) :
                   vs[i].id \in D => state[vs[i].id] \subseteq Range(vs[i].possibleValues)} :
           D \in SUBSET VarIds(vs)}

FormatState(state) ==
    /\ formatCall' = [called |-> TRUE, state |-> state,
                      lines |-> formatState(state, variables)]
    /\ UNCHANGED <<variables, nodes, edges, invariants, modelCheckerResults, isRunning,
                   selectedNode, unreachableNodeIds, simulationVars, panelVars>>

InitFormat ==
    /\ variables \in UNION {{[i \in 1..k |-> Var(i, size[i])] :
                                size \in [1..k -> 0..Len(ValuePool)]} :
                             k \in 0..MaxFormatVariables}
    /\ nodes = <<RootNode>>
    /\ edges = <<>>
    /\ invariants = <<>>
    /\ modelCheckerResults = <<>>
    /\ isRunning = FALSE
    /\ selectedNode = NoSelection
    /\ unreachableNodeIds = {}
    /\ testCases = <<>>
    /\ simulationResults = <<>>
    /\ formatCall = NoCall
    /\ PanelsIdle

NextFormat == \E state \in NodeStates(variables) : FormatState(state)

SpecFormat == InitFormat /\ [][NextFormat]_vars

-----------------------------------------------------------------------------
(* The path search of calculateNodeState on every graph of the five nodes: *)
(* each out handle has any node but its own as target, or no edge.         *)

PathTargets ==
    <<{None, "d1"}, {None, "d2", "l1", "l2"}, {None, "d2", "l1", "l2"},
      {None, "d1", "l1", "l2"}, {None, "d1", "l1", "l2"}>>

InitPaths ==
    /\ Project({<<VarTemp, VarFan>>}, {G("Temp", "==", "HIGH")}, {G("Fan", "==", "LOW")},
               PathTargets, Len(Slots))
    /\ invariants = <<>>
    /\ modelCheckerResults = <<>>
    /\ isRunning = FALSE
    /\ selectedNode = NoSelection
    /\ unreachableNodeIds = {}
    /\ testCases = <<>>
    /\ simulationResults = <<>>
    /\ formatCall = NoCall
    /\ PanelsIdle

SpecPaths == InitPaths /\ [][Next]_vars

-----------------------------------------------------------------------------
(* components/TreeEditor.tsx: the graph is built from the initial graph by *)
(* adding nodes and drawing connections.  A connection leaves the source   *)
(* handle of a root (out) or decision node (yes, no) and enters the target *)
(* handle (in) of a decision or leaf node.                                 *)

\* largest number of nodes added to the initial graph
MaxAdded == 3

initialNodes == <<RootNode>>

\* getNextNodeId(prefix): one more than the largest number behind the prefix
getNextNodeId(ns, prefix) ==
    LET used == {k \in 1..Len(ns) : \E i \in 1..Len(ns) : ns[i].nodeId = prefix \o ToString(k)}
        maxId == IF used = {} THEN 0 ELSE CHOOSE k \in used : \A j \in used : j <= k
    IN prefix \o ToString(maxId + 1)

addDecisionNode ==
    /\ Len(nodes) < Len(initialNodes) + MaxAdded
    /\ nodes' = Append(nodes, Decision(getNextNodeId(nodes, "D"), getNextNodeId(nodes, "D"), <<>>))
    /\ UNCHANGED <<variables, edges, invariants, modelCheckerResults, isRunning,
                   selectedNode, unreachableNodeIds, simulationVars, formatCall, panelVars>>

addLeafNode ==
    /\ Len(nodes) < Len(initialNodes) + MaxAdded
    /\ nodes' = Append(nodes, Leaf(getNextNodeId(nodes, "L"), getNextNodeId(nodes, "L")))
    /\ UNCHANGED <<variables, edges, invariants, modelCheckerResults, isRunning,
                   selectedNode, unreachableNodeIds, simulationVars, formatCall, panelVars>>

\* the connections the user can draw: from the handle of the root (out, or
\* no handle id: the library's Connection has sourceHandle: string | null)
\* or a handle of a decision node (yes, no) to the handle in of a decision or
\* leaf node
Connections(ns) ==
    {c \in [source : NodeIds(ns), sourceHandle : {"out", HandleNull, "yes", "no"},
            target : NodeIds(ns), targetHandle : {"in"}] :
        /\ Find(ns, LAMBDA n : n.id = c.source).type = "root"
              <=> c.sourceHandle \in {"out", HandleNull}
        /\ Find(ns, LAMBDA n : n.id = c.source).type # "leaf"
        /\ Find(ns, LAMBDA n : n.id = c.target).type # "root"}

\* isValidConnection with the test of the source handle left out
isValidConnectionAnyHandle(connection, es) == connection.source # connection.target

isValidConnection(connection, es) ==
    /\ connection.source # connection.target
    /\ ~\E i \in 1..Len(es) :
          /\ es[i].source = connection.source
          /\ \/ es[i].sourceHandle = connection.sourceHandle
             \/ (es[i].sourceHandle = HandleNull /\ connection.sourceHandle = "out")
             \/ (es[i].sourceHandle = "out" /\ connection.sourceHandle = HandleNull)

\* addEdge(params, edges) of the graph library: the edge list with one more
\* edge, unless it holds an edge with the same ends and handles
addEdge(params, es) ==
    IF \E i \in 1..Len(es) : /\ es[i].source = params.source
                             /\ es[i].target = params.target
                             /\ es[i].sourceHandle = params.sourceHandle
    THEN es
    ELSE Append(es, [id |-> "xy-edge__" \o params.source
                              \o (IF params.sourceHandle = HandleNull THEN ""
                                  ELSE params.sourceHandle)
                              \o "-" \o params.target \o params.targetHandle,
                     source |-> params.source, target |-> params.target,
                     sourceHandle |-> params.sourceHandle])

\* the user draws a connection: the library asks isValidConnection and then
\* calls onConnect
onConnect(params) ==
    /\ Len(edges) < MaxEdges
    /\ isValidConnection(params, edges)
    /\ edges' = addEdge(params, edges)
    /\ UNCHANGED <<variables, nodes, invariants, modelCheckerResults, isRunning,
                   selectedNode, unreachableNodeIds, simulationVars, formatCall, panelVars>>

InitConnect ==
    /\ variables = <<VarTemp>>
    /\ nodes = initialNodes
    /\ edges = <<>>
    /\ invariants = <<>>
    /\ modelCheckerResults = <<>>
    /\ isRunning = FALSE
    /\ selectedNode = NoSelection
    /\ unreachableNodeIds = {}
    /\ testCases = <<>>
    /\ simulationResults = <<>>
    /\ formatCall = NoCall
    /\ PanelsIdle

NextConnect ==
    \/ addDecisionNode
    \/ addLeafNode
    \/ \E params \in Connections(nodes) : onConnect(params)

SpecConnect == InitConnect /\ [][NextConnect]_vars

-----------------------------------------------------------------------------
(* utils/renumbering.ts: the decision nodes become D1, D2, ... and the     *)
(* leaf nodes L1, L2, ... in the order of their position on the canvas;    *)
(* the edges, the stored rows and the simulation results follow.           *)

\* a node at a position of the canvas
At(node, x, y) ==
    [id |-> node.id, type |-> node.type, nodeId |-> node.nodeId,
     expression |-> node.expression, position |-> [x |-> x, y |-> y]]

Abs(n) == IF n < 0 THEN -n ELSE n

sortFn(a, b) ==
    IF Abs(a.position.y - b.position.y) > 50
    THEN a.position.y - b.position.y
    ELSE a.position.x - b.position.x

\* Array.prototype.sort(sortFn), a stable sort; the positions of the model
\* lie on a grid on which sortFn is a strict weak ordering
sort(s) ==
    LET rank(i) == 1 + Cardinality({j \in 1..Len(s) :
                        \/ sortFn(s[j], s[i]) < 0
                        \/ (sortFn(s[j], s[i]) = 0 /\ j < i)})
    IN [r \in 1..Len(s) |-> s[CHOOSE i \in 1..Len(s) : rank(i) = r]]

\* Map.set for every entry in turn, then Map.has and Map.get
MapHas(entries, key) == \E i \in 1..Len(entries) : entries[i].key = key

MapGet(entries, key) ==
    entries[CHOOSE i \in 1..Len(entries) :
                /\ entries[i].key = key
                /\ \A j \in (i + 1)..Len(entries) : entries[j].key # key].value

\* the decision nodes and the leaf nodes in their new order, each with its
\* new id
newIds(ns) ==
    LET decisionNodes == sort(SelectSeq(ns, LAMBDA n : n.type = "decision"))
        leafNodes == sort(SelectSeq(ns, LAMBDA n : n.type = "leaf"))
    IN [i \in 1..Len(decisionNodes) |->
           [node |-> decisionNodes[i], newId |-> "D" \o ToString(i)]]
       \o [i \in 1..Len(leafNodes) |->
              [node |-> leafNodes[i], newId |-> "L" \o ToString(i)]]

idMap(ns) ==
    LET ids == newIds(ns) IN
    [i \in 1..Len(ids) |-> [key |-> ids[i].node.id, value |-> ids[i].newId]]

nodeIdMap(ns) ==
    LET named == SelectSeq(newIds(ns), LAMBDA e : e.node.nodeId # "") IN
    [i \in 1..Len(named) |-> [key |-> named[i].node.nodeId, value |-> named[i].newId]]

\* map.get(key) || key, map.has(key) ? map.get(key) : key
Renamed(entries, key) == IF MapHas(entries, key) THEN MapGet(entries, key) ELSE key

newNodes(ns) ==
    [i \in 1..Len(ns) |->
        IF MapHas(idMap(ns), ns[i].id)
        THEN [ns[i] EXCEPT !.id = MapGet(idMap(ns), ns[i].id),
                           !.nodeId = MapGet(idMap(ns), ns[i].id)]
        ELSE ns[i]]

\* the regenerated id of an edge
newEdgeId(e, ns) ==
    "e" \o Renamed(idMap(ns), e.source) \o "-" \o Renamed(idMap(ns), e.target)

newEdges(ns, es) ==
    [i \in 1..Len(es) |->
        [es[i] EXCEPT !.id = newEdgeId(es[i], ns),
                      !.source = Renamed(idMap(ns), es[i].source),
                      !.target = Renamed(idMap(ns), es[i].target)]]

newModelCheckerResults(ns, rows) ==
    [i \in 1..Len(rows) |-> [rows[i] EXCEPT !.result = Renamed(nodeIdMap(ns), @)]]

edgeIdMap(ns, es) ==
    [i \in 1..Len(es) |-> [key |-> es[i].id, value |-> newEdgeId(es[i], ns)]]

newSimulationResults(ns, es, results) ==
    [key \in DOMAIN results |->
        [results[key] EXCEPT
            !.nodeIds = {Renamed(idMap(ns), id) : id \in @},
            !.edgeIds = {Renamed(edgeIdMap(ns, es), id) : id \in @},
            !.result = IF @ # ResultNull THEN Renamed(nodeIdMap(ns), @) ELSE @]]

renumberNodes(ns, es, rows, results) ==
    [newNodes |-> newNodes(ns),
     newEdges |-> newEdges(ns, es),
     newModelCheckerResults |-> newModelCheckerResults(ns, rows),
     newSimulationResults |-> newSimulationResults(ns, es, results)]

\* TreeEditor.handleRenumber
HandleRenumber ==
    /\ nodes' = renumberNodes(nodes, edges, modelCheckerResults, simulationResults).newNodes
    /\ edges' = renumberNodes(nodes, edges, modelCheckerResults, simulationResults).newEdges
    /\ modelCheckerResults' =
          renumberNodes(nodes, edges, modelCheckerResults,
                        simulationResults).newModelCheckerResults
    /\ simulationResults' =
          renumberNodes(nodes, edges, modelCheckerResults,
                        simulationResults).newSimulationResults
    /\ UNCHANGED <<variables, invariants, isRunning, selectedNode, unreachableNodeIds,
                   testCases, formatCall, panelVars>>

\* where the second decision node and the second leaf are dropped on the
\* canvas: left of, on or above the first one
PositionPool == {<<0, 200>>, <<100, 200>>, <<100, 100>>}

RenumberTargets ==
    <<{"d1"}, {"d2", "l1"}, {"l1", "l2"}, {"l1", "l2"}, {None, "l2"}>>

\* a project whose nodes were added and moved about, with one invariant and
\* one test case
InitRenumber ==
    /\ variables = <<VarTemp>>
    /\ \E pd \in PositionPool, pl \in PositionPool :
          nodes = <<At(RootNode, 100, 0),
                    At(Decision("d1", "D1", G("Temp", "==", "HIGH")), 100, 200),
                    At(Decision("d2", "D2", G("Temp", "==", "LOW")), pd[1], pd[2]),
                    At(Leaf("l1", "L1"), 100, 200),
                    At(Leaf("l2", "L2"), pl[1], pl[2])>>
    /\ \E t \in Graphs(RenumberTargets, Len(Slots)) : edges = EdgeList(t)
    /\ \E expectedResult \in {"L1", "L2"} :
          invariants = <<[id |-> "i1", condition |-> G("Temp", "==", "HIGH"),
                          expectedResult |-> expectedResult]>>
    /\ modelCheckerResults = <<>>
    /\ isRunning = FALSE
    /\ selectedNode = NoSelection
    /\ unreachableNodeIds = {}
    /\ testCases = <<[id |-> "t1", values |-> combinations(variables)[1]]>>
    /\ simulationResults = <<>>
    /\ formatCall = NoCall
    /\ PanelsIdle

NextRenumber ==
    \/ HandleRun
    \/ RunTimer
    \/ \E k \in 1..Len(testCases) : HandleRunSingleCase(k)
    \/ HandleRenumber

SpecRenumber == InitRenumber /\ [][NextRenumber]_vars

-----------------------------------------------------------------------------
(* components/InspectorPanel.tsx: the analysis of a selected edge is the   *)
(* state of its source node narrowed by the guard of the source node.      *)

\* val.trim().replace(/^['"]|['"]$/g, ''): a value token without its quotes;
\* a value of several tokens is no value of a variable
cleanVal(val) ==
    IF Len(val) = 1 THEN Unquote(val[1]) ELSE CompoundText

\* the helper apply of the edge branch of analysis
apply(s, varName, op, val, vs) ==
    LET v == Find(vs, LAMBDA x : x.name = varName) IN
    IF v = Null \/ v.id \notin DOMAIN s THEN s
    ELSE [s EXCEPT ![v.id] =
             IF op = "=="
             THEN IF cleanVal(val) \in s[v.id] THEN {cleanVal(val)} ELSE {}
             ELSE s[v.id] \ {cleanVal(val)}]

\* parts.forEach(part => { const m = part.match(...); if (m) apply(...) })
RECURSIVE ApplyEachPart(_, _, _, _)
ApplyEachPart(s, parts, i, vs) ==
    IF i > Len(parts) THEN s
    ELSE ApplyEachPart(IF eqMatch(parts[i]) = Null THEN s
                       ELSE apply(s, eqMatch(parts[i]).varName, eqMatch(parts[i]).op,
                                  eqMatch(parts[i]).val, vs),
                       parts, i + 1, vs)

\* edgeState narrowed by the guard of the decision node the edge leaves
NarrowedByGuard(sourceState, expression, sourceHandle, vs) ==
    IF sourceHandle = "yes" /\ expression # <<>>
    THEN ApplyEachPart(sourceState, SplitAnd(expression), 1, vs)
    ELSE IF sourceHandle = "no" /\ expression # <<>>
              /\ ~Includes(expression, "&&") /\ ~Includes(expression, "||")
              /\ eqMatch(expression) # Null
    THEN apply(sourceState, eqMatch(expression).varName,
               IF eqMatch(expression).op = "==" THEN "!=" ELSE "==",
               eqMatch(expression).val, vs)
    ELSE sourceState

\* { ...sourceState }: the state itself, no entries for null
Spread(sourceState) == IF sourceState = Null THEN <<>> ELSE sourceState

\* the edgeState that the edge branch of analysis hands to formatState
EdgeStateOf(sourceNode, sourceState, edge, vs) ==
    IF sourceNode # Null /\ sourceNode.type = "decision"
          /\ edge.sourceHandle \in {"yes", "no"}
    THEN NarrowedByGuard(sourceState, sourceNode.expression, edge.sourceHandle, vs)
    ELSE sourceState

edgeState(edge, ns, es, vs) ==
    EdgeStateOf(Find(ns, LAMBDA n : n.id = edge.source),
                Spread(calculateNodeState(edge.source, ns, es, vs)), edge, vs)

\* the user selects an edge of the graph
SelectEdge(k) ==
    /\ k \in 1..Len(edges)
    /\ selectedEdge' = edges[k]
    /\ UNCHANGED <<variables, nodes, edges, invariants, modelCheckerResults, isRunning,
                   selectedNode, unreachableNodeIds, simulationVars, formatCall,
                   draft, saved, timers>>

\* the user selects nothing
Deselect ==
    /\ selectedEdge # NoEdge
    /\ selectedEdge' = NoEdge
    /\ UNCHANGED <<variables, nodes, edges, invariants, modelCheckerResults, isRunning,
                   selectedNode, unreachableNodeIds, simulationVars, formatCall,
                   draft, saved, timers>>

\* three decision nodes and a leaf
InspectorNodes(g1, g2, g3) ==
    <<RootNode, Decision("d1", "D1", g1), Decision("d2", "D2", g2),
      Decision("d3", "D3", g3), Leaf("l1", "L1")>>

InspectorSlots ==
    Slots \o <<[source |-> "d3", sourceHandle |-> "yes"],
               [source |-> "d3", sourceHandle |-> "no"]>>

\* the targets of the seven source handles; None: no edge
InspectorTargets ==
    <<{"d1"}, {None, "d2", "d3"}, {None, "d2", "d3"}, {None, "d3", "l1"},
      {None, "d3", "l1"}, {None, "l1"}, {None, "l1"}>>

InspectorEdgeList(t) ==
    SelectSeq([i \in 1..Len(InspectorSlots) |->
                  [id |-> "e" \o ToString(i), source |-> InspectorSlots[i].source,
                   target |-> t[i], sourceHandle |-> InspectorSlots[i].sourceHandle]],
              LAMBDA e : e.target # None)

InitInspector ==
    /\ variables = <<VarTemp, VarFan>>
    /\ \E g1 \in {G("Temp", "==", "LOW"),
                  G("Temp", "==", "LOW") \o <<"&&">> \o G("Fan", "==", "LOW")},
          g2 \in {G("Fan", "==", "HIGH"), G("Fan", "!=", "HIGH")},
          g3 \in {G("Temp", "==", "HIGH"), G("Temp", "!=", "LOW")} :
          nodes = InspectorNodes(g1, g2, g3)
    /\ \E t \in [1..Len(InspectorSlots) -> {None, "d1", "d2", "d3", "l1"}] :
          /\ \A i \in 1..Len(InspectorSlots) : t[i] \in InspectorTargets[i]
          /\ edges = InspectorEdgeList(t)
    /\ invariants = <<>>
    /\ modelCheckerResults = <<>>
    /\ isRunning = FALSE
    /\ selectedNode = NoSelection
    /\ unreachableNodeIds = {}
    /\ testCases = <<>>
    /\ simulationResults = <<>>
    /\ formatCall = NoCall
    /\ PanelsIdle

NextInspector ==
    \/ \E k \in 1..Len(edges) : SelectEdge(k)
    \/ Deselect

SpecInspector == InitInspector /\ [][NextInspector]_vars

-----------------------------------------------------------------------------
(* SimulationPanel: the test cases are added, edited and removed while     *)
(* Run this case and Run All store their results.  Run All computes its    *)
(* results in a timer, from the test cases of the render it was clicked in. *)

\* the number of ids that crypto.randomUUID() can draw for test cases
MaxCases == 2

\* the isRunning state of the SimulationPanel: set by handleRunAll, cleared
\* by its timer
simulationIsRunning == timers # <<>>

\* the ids that test cases, results and pending timers hold
CaseIdsInUse ==
    {testCases[i].id : i \in 1..Len(testCases)}
        \cup DOMAIN simulationResults
        \cup UNION {{timers[k].testCases[i].id : i \in 1..Len(timers[k].testCases)} :
                    k \in 1..Len(timers)}

\* crypto.randomUUID(): an id that nothing holds
FreeCaseIds == {i \in 1..MaxCases : ("t" \o ToString(i)) \notin CaseIdsInUse}

FreshCaseId == "t" \o ToString(CHOOSE i \in FreeCaseIds : \A j \in FreeCaseIds : i <= j)

getDefaultValues(vs) ==
    [name \in {vs[i].name : i \in {k \in 1..Len(vs) : Len(vs[k].possibleValues) > 0}} |->
        Find(vs, LAMBDA v : v.name = name).possibleValues[1]]

\* the effect that adds a default case when there is none
DefaultCaseEffect ==
    /\ Len(testCases) = 0 /\ Len(variables) > 0
    /\ FreeCaseIds # {}
    /\ testCases' = <<[id |-> FreshCaseId, values |-> getDefaultValues(variables)]>>
    /\ UNCHANGED <<variables, nodes, edges, invariants, modelCheckerResults, isRunning,
                   selectedNode, unreachableNodeIds, simulationResults, formatCall,
                   panelVars>>

\* handleSaveCase of the modal opened by handleOpenAddModal
HandleSaveCaseNew(values) ==
    /\ FreeCaseIds # {}
    /\ testCases' = Append(testCases, [id |-> FreshCaseId, values |-> values])
    /\ UNCHANGED <<variables, nodes, edges, invariants, modelCheckerResults, isRunning,
                   selectedNode, unreachableNodeIds, simulationResults, formatCall,
                   panelVars>>

\* handleSaveCase of the modal opened by handleOpenEditModal for case k
HandleSaveCaseEdit(k, values) ==
    /\ k \in 1..Len(testCases)
    /\ testCases' = [i \in 1..Len(testCases) |->
                        IF testCases[i].id = testCases[k].id
                        THEN [testCases[i] EXCEPT !.values = values]
                        ELSE testCases[i]]
    /\ simulationResults' =
          [id \in DOMAIN simulationResults \ {testCases[k].id} |-> simulationResults[id]]
    /\ UNCHANGED <<variables, nodes, edges, invariants, modelCheckerResults, isRunning,
                   selectedNode, unreachableNodeIds, formatCall, panelVars>>

\* handleRemoveCase(id) for case k: removeTestCase of the store
HandleRemoveCase(k) ==
    /\ k \in 1..Len(testCases)
    /\ testCases' = SelectSeq(testCases, LAMBDA tc : tc.id # testCases[k].id)
    /\ simulationResults' =
          [id \in DOMAIN simulationResults \ {testCases[k].id} |-> simulationResults[id]]
    /\ UNCHANGED <<variables, nodes, edges, invariants, modelCheckerResults, isRunning,
                   selectedNode, unreachableNodeIds, formatCall, panelVars>>

\* handleRunAll: the button is disabled without test cases and while running;
\* the timer keeps the test cases of this render
HandleRunAll ==
    /\ Len(testCases) # 0 /\ ~simulationIsRunning
    /\ timers' = Append(timers, [testCases |-> testCases])
    /\ UNCHANGED <<variables, nodes, edges, invariants, modelCheckerResults, isRunning,
                   selectedNode, unreachableNodeIds, simulationVars, formatCall,
                   draft, saved, selectedEdge>>

\* the results the timer of handleRunAll stores for the test cases it kept
newResultsOf(cases, ns, es, vs) ==
    [id \in {cases[i].id : i \in 1..Len(cases)} |->
        runSimulation(Find(cases, LAMBDA tc : tc.id = id).values, ns, es, vs)]

\* the timer of handleRunAll fires, 50 ms after the click
RunAllTimer ==
    /\ timers # <<>>
    /\ simulationResults' = newResultsOf(timers[1].testCases, nodes, edges, variables)
    /\ timers' = Tail(timers)
    /\ UNCHANGED <<variables, nodes, edges, invariants, modelCheckerResults, isRunning,
                   selectedNode, unreachableNodeIds, testCases, formatCall,
                   draft, saved, selectedEdge>>

InitTestCases ==
    /\ variables = <<VarFan>>
    /\ nodes = NodeList(G("Fan", "==", "LOW"), <<>>)
    /\ edges = EdgeList(<<"d1", "l1", "l2", None, None>>)
    /\ invariants = <<>>
    /\ modelCheckerResults = <<>>
    /\ isRunning = FALSE
    /\ selectedNode = NoSelection
    /\ unreachableNodeIds = {}
    /\ testCases = <<>>
    /\ simulationResults = <<>>
    /\ formatCall = NoCall
    /\ PanelsIdle

NextTestCases ==
    \/ DefaultCaseEffect
    \/ \E values \in Range(combinations(variables)) : HandleSaveCaseNew(values)
    \/ \E k \in 1..Len(testCases), values \in Range(combinations(variables)) :
          HandleSaveCaseEdit(k, values)
    \/ \E k \in 1..Len(testCases) : HandleRemoveCase(k)
    \/ \E k \in 1..Len(testCases) : HandleRunSingleCase(k)
    \/ HandleRunAll
    \/ RunAllTimer

SpecTestCases == InitTestCases /\ [][NextTestCases]_vars

-----------------------------------------------------------------------------
(* components/nodes/DecisionNode.tsx: the expression of decision node d1   *)
(* is edited and saved.  A change of the text area and a click on an       *)
(* insert button add a fragment at the end of the text.                    *)

\* a word is added to a text of fewer than MaxTokens tokens, a comparison to
\* a text of at most MaxTokens + 1 tokens
MaxTokens == 3

\* what the user types: comparisons and single words
TypedFragments ==
    {G("Fan", "==", "MID"), G("Fan", "!=", "MID"), G("Fan", "==", "'HIGH'"),
     G("Fan", "==", "Temp"), G("Fan", "==", "Bogus"), G("Bogus", "==", "MID"),
     G("Temp", "==", "MID"), G("MID", "==", "Fan"),
     <<"&&">> \o G("Fan", "==", "MID"), <<"&&">> \o G("Fan", "==", "'HIGH'"),
     <<"||">> \o G("Temp", "!=", "MID"),
     <<"!">>, <<"Math">>, <<"MID">>}

\* the text area is shown while isEditing, which a successful save ends
isEditing == ~(saved.called /\ saved.validation.isValid)

\* setExpression(text); setError(null)
SetExpression(text) ==
    /\ isEditing
    /\ draft' = text
    /\ saved' = NotSaved
    /\ UNCHANGED <<variables, nodes, edges, invariants, modelCheckerResults, isRunning,
                   selectedNode, unreachableNodeIds, simulationVars, formatCall,
                   selectedEdge, timers>>

CanAdd(fragment) ==
    IF Len(fragment) = 1 THEN Len(draft) < MaxTokens ELSE Len(draft) <= MaxTokens + 1

\* onChange of the text area
Change(fragment) == CanAdd(fragment) /\ SetExpression(draft \o fragment)

\* insertVariable(varName)
InsertVariable(k) ==
    /\ k \in 1..Len(variables)
    /\ CanAdd(<<variables[k].name>>)
    /\ SetExpression(Append(draft, variables[k].name))

\* insertOperator(op), and the two buttons of the parentheses
InsertOperator(op) ==
    /\ op \in {"==", "!=", "&&", "||", "(", ")"}
    /\ CanAdd(<<op>>)
    /\ SetExpression(Append(draft, op))

\* updateNodeData(id, {expression})
updateNodeData(ns, id, expression) ==
    [i \in 1..Len(ns) |-> IF ns[i].id = id THEN [ns[i] EXCEPT !.expression = expression]
                          ELSE ns[i]]

\* handleSave of the DecisionNode d1
HandleSave ==
    /\ isEditing
    /\ saved' = [called |-> TRUE, expression |-> draft,
                 validation |-> validateExpression(draft, variables)]
    /\ nodes' = IF validateExpression(draft, variables).isValid
                THEN updateNodeData(nodes, "d1", draft)
                ELSE nodes
    /\ UNCHANGED <<variables, edges, invariants, modelCheckerResults, isRunning,
                   selectedNode, unreachableNodeIds, simulationVars, formatCall,
                   draft, selectedEdge, timers>>

InitValidation ==
    /\ variables = <<VarTemp, VarFan>>
    /\ nodes = NodeList(G("Temp", "==", "HIGH"), <<>>)
    /\ edges = EdgeList(<<"d1", "l1", "l2", None, None>>)
    /\ invariants = <<>>
    /\ modelCheckerResults = <<>>
    /\ isRunning = FALSE
    /\ selectedNode = NoSelection
    /\ unreachableNodeIds = {}
    /\ testCases = <<>>
    /\ simulationResults = <<>>
    /\ formatCall = NoCall
    /\ PanelsIdle

NextValidation ==
    \/ \E fragment \in TypedFragments : Change(fragment)
    \/ \E k \in 1..Len(variables) : InsertVariable(k)
    \/ \E op \in {"==", "!=", "&&", "||", "(", ")"} : InsertOperator(op)
    \/ HandleSave

SpecValidation == InitValidation /\ [][NextValidation]_vars

-----------------------------------------------------------------------------
(* Reference notions for the Model Checker *)

Names == {variables[k].name : k \in 1..Len(variables)}

\* every identifier of the expression is a declared variable or an enum value
Declared(expression) ==
    \A i \in 1..Len(expression) :
        IsIdentifierToken(expression[i]) =>
            expression[i] \in Names \cup allEnumValues(variables)

\* what each expression of the pools means for an assignment c of the
\* variables it names
Holds(expression, c) ==
    CASE expression = G("Temp", "==", "HIGH") -> c["Temp"] = "HIGH"
      [] expression = G("Temp", "==", "'HIGH'") -> c["Temp"] = "HIGH"
      [] expression = G("Temp", "==", "LOW") -> c["Temp"] = "LOW"
      [] expression = G("Temp", "!=", "HIGH") -> c["Temp"] # "HIGH"
      [] expression = G("Fan", "==", "LOW") -> c["Fan"] = "LOW"
      [] expression = G("Temp", "==", "Fan") -> c["Temp"] = c["Fan"]
      [] expression = G("Temp", "==", "HIGH") \o <<"&&">> \o G("Fan", "==", "LOW")
            -> c["Temp"] = "HIGH" /\ c["Fan"] = "LOW"
      [] expression = G("Temp", "==", "HIGH") \o <<"||">> \o G("Temp", "==", "LOW")
            -> c["Temp"] \in {"HIGH", "LOW"}
      [] expression = G("Temp", "==", "HIGH") \o <<"||">> \o G("Fan", "==", "'LOW'")
            -> c["Temp"] = "HIGH" \/ c["Fan"] = "LOW"
      [] expression = <<"(">> \o G("Temp", "==", "HIGH") \o <<")">> -> c["Temp"] = "HIGH"
      [] expression = <<"!", "(">> \o G("Temp", "!=", "HIGH") \o <<")">> -> c["Temp"] = "HIGH"
      [] OTHER -> FALSE

ValidGuard(expression) ==
    /\ expression \in (SimpleGuards \cup ComplexGuards) \ {<<>>}
    /\ Declared(expression)

OutEdges(n, handles) ==
    {i \in 1..Len(edges) : edges[i].source = n /\ edges[i].sourceHandle \in handles}

\* one root with one out edge, every decision node with a valid guard and
\* one yes and one no edge, every edge to a node of the graph, no cycle
WellFormed ==
    /\ Cardinality({i \in 1..Len(nodes) : nodes[i].type = "root"}) = 1
    /\ Cardinality(OutEdges(RootId, {"out", HandleNull})) = 1
    /\ \A i \in 1..Len(nodes) :
          nodes[i].type = "decision" =>
              /\ ValidGuard(nodes[i].expression)
              /\ Cardinality(OutEdges(nodes[i].id, {"yes"})) = 1
              /\ Cardinality(OutEdges(nodes[i].id, {"no"})) = 1
    /\ \A i \in 1..Len(edges) : edges[i].target \in NodeIds(nodes)
    /\ ~HasCycle
    /\ Len(nodes) < MAX_STEPS

NodeOf(id) == CHOOSE n \in Range(nodes) : n.id = id

\* the leaf below node id for the assignment c, in a well-formed graph
RECURSIVE LeafBelow(_, _)
LeafBelow(id, c) ==
    LET n == NodeOf(id) IN
    IF n.type = "leaf" THEN n.nodeId
    ELSE LET handles == IF n.type = "root" THEN {"out", HandleNull}
                        ELSE IF Holds(n.expression, c) THEN {"yes"} ELSE {"no"}
             e == edges[CHOOSE i \in OutEdges(id, handles) : TRUE]
         IN LeafBelow(e.target, c)

LeafResults == {nodes[i].nodeId : i \in {k \in 1..Len(nodes) : nodes[k].type = "leaf"}}

IsFault(result) == result \in FaultResults

RowRun(i) == evaluateRun(modelCheckerResults[i].combo, nodes, edges, variables)

\* the number of decision nodes among the first n entries of a trace
DecisionsIn(trace, n) ==
    Cardinality({i \in 1..n : NodeOf(trace[i]).type = "decision"})

-----------------------------------------------------------------------------
(* Properties of the Model Checker *)

\* C7: in a well-formed graph the result of every row is the external id of
\* the leaf that the guards' meaning leads to from the root.
C7_WalkReachesTheLeaf ==
    WellFormed =>
        \A i \in 1..Len(modelCheckerResults) :
            modelCheckerResults[i].result = LeafBelow(RootId, modelCheckerResults[i].combo)

\* both decision nodes decide, and two rows end in different leaves
C7_Witness ==
    /\ WellFormed
    /\ Len(modelCheckerResults) > 0
    /\ \E i, j \in 1..Len(modelCheckerResults) :
          /\ modelCheckerResults[i].result = "L1"
          /\ modelCheckerResults[j].result = "L2"
          /\ Len(RowRun(i).guards) = 2

\* C8: an invariant is listed for a row exactly if its condition holds for
\* the row's combination and its expected result is not the row's result.
C8_ViolationsExact ==
    \A i \in 1..Len(modelCheckerResults) :
        \A k \in 1..Len(invariants) :
            (invariants[k] \in Range(displayResults[i].violations))
              <=> /\ Declared(invariants[k].condition)
                  /\ Holds(invariants[k].condition, modelCheckerResults[i].combo)
                  /\ invariants[k].expectedResult # modelCheckerResults[i].result

\* a row with two violations, one of them against a fault result, a row with
\* none, and an invariant whose condition holds and is met
C8_Witness ==
    /\ Len(invariants) = 2
    /\ \E i, j, m \in 1..Len(modelCheckerResults) :
          /\ Len(displayResults[i].violations) = 2
          /\ IsFault(modelCheckerResults[i].result)
          /\ Len(displayResults[j].violations) = 0
          /\ \E k \in 1..Len(invariants) :
                /\ Holds(invariants[k].condition, modelCheckerResults[m].combo)
                /\ invariants[k] \notin Range(displayResults[m].violations)

\* C9: the stored rows are the combinations in their order, each with a leaf
\* id or a fault as result, and each row's result is that of its own walk.
C9_OneRowPerCombination ==
    modelCheckerResults # <<>> =>
        /\ Len(modelCheckerResults) = Len(combinations(variables))
        /\ \A i \in 1..Len(modelCheckerResults) :
              /\ modelCheckerResults[i].combo = combinations(variables)[i]
              /\ modelCheckerResults[i].result \in LeafResults \cup FaultResults
              /\ modelCheckerResults[i].result = RowRun(i).result

\* a fault row followed by a row that reached a leaf
C9_Witness ==
    \E i, j \in 1..Len(modelCheckerResults) :
        /\ i < j
        /\ IsFault(modelCheckerResults[i].result)
        /\ modelCheckerResults[j].result \in LeafResults

\* C10: a walk that enters a node a second time ends there with Loop
\* Detected: the node is the last of the trace and no guard is evaluated
\* after the decision nodes entered before it.
C10_LoopStopsTheWalk ==
    \A i \in 1..Len(modelCheckerResults) :
        LET run == RowRun(i) IN
        ~NoRepeat(run.trace) =>
            /\ modelCheckerResults[i].result = ErrLoop
            /\ NoRepeat(SubSeq(run.trace, 1, Len(run.trace) - 1))
            /\ Len(run.guards) = DecisionsIn(run.trace, Len(run.trace) - 1)

C10_Witness ==
    \E i \in 1..Len(modelCheckerResults) :
        /\ ~NoRepeat(RowRun(i).trace)
        /\ modelCheckerResults[i].result = ErrLoop
        /\ Len(RowRun(i).guards) = 2

-----------------------------------------------------------------------------
(* Reference notions for the walks *)

\* what runSimulation did for test case number k
SimRun(k) == simulationRun(testCases[k].values, nodes, edges, variables)

\* the test cases whose result is stored
Simulated == {k \in 1..Len(testCases) : testCases[k].id \in DOMAIN simulationResults}

Last(s) == s[Len(s)]

\* a walk with the assignment c can leave node id: it is the root or a
\* decision node with a valid guard, and the edge it takes exists and leads
\* to a node of the graph
CanLeave(id, c) ==
    LET n == NodeOf(id)
        handles == IF n.type = "root" THEN {"out", HandleNull}
                   ELSE IF Holds(n.expression, c) THEN {"yes"} ELSE {"no"}
    IN /\ n.type \in {"root", "decision"}
       /\ n.type = "decision" => ValidGuard(n.expression)
       /\ OutEdges(id, handles) # {}
       /\ \A i \in OutEdges(id, handles) : edges[i].target \in NodeIds(nodes)

\* the walk entered MAX_STEPS different nodes and can leave the last one
BoundReached(trace, c) ==
    /\ Len(trace) = MAX_STEPS
    /\ NoRepeat(trace)
    /\ CanLeave(Last(trace), c)

-----------------------------------------------------------------------------
(* Properties of the walks *)

\* C11: a walk of the Model Checker or of the Simulation enters at most
\* MAX_STEPS nodes, and a walk that entered MAX_STEPS nodes and could go on
\* reports the step-bound fault.
C11_WalkIsBounded ==
    /\ \A i \in 1..Len(modelCheckerResults) :
          /\ Len(RowRun(i).trace) <= MAX_STEPS
          /\ BoundReached(RowRun(i).trace, modelCheckerResults[i].combo)
                => modelCheckerResults[i].result = ErrTooManySteps
    /\ \A k \in Simulated :
          /\ Len(SimRun(k).entered) <= MAX_STEPS
          /\ BoundReached(SimRun(k).entered, testCases[k].values)
                => /\ simulationResults[testCases[k].id].result = SimTimeout
                   /\ simulationResults[testCases[k].id].isError

\* a graph of more than MAX_STEPS nodes on which both walks stopped at the bound
C11_Witness ==
    /\ Len(nodes) > MAX_STEPS + 1
    /\ \E i \in 1..Len(modelCheckerResults) :
          /\ BoundReached(RowRun(i).trace, modelCheckerResults[i].combo)
          /\ modelCheckerResults[i].result = ErrTooManySteps
    /\ \E k \in Simulated :
          /\ BoundReached(SimRun(k).entered, testCases[k].values)
          /\ simulationResults[testCases[k].id].result = SimTimeout

-----------------------------------------------------------------------------
(* Properties of the combinations *)

\* the product of the sizes of the domains of the variables i..Len(vs)
RECURSIVE DomainProduct(_, _)
DomainProduct(vs, i) ==
    IF i > Len(vs) THEN 1 ELSE Len(vs[i].possibleValues) * DomainProduct(vs, i + 1)

\* C12: with at least one variable the number of combinations is the product
\* of the sizes of the domains; without variables it is 0.  The run stores
\* that many rows.
C12_CombinationCount ==
    /\ Len(combinations(variables)) =
          IF Len(variables) = 0 THEN 0 ELSE DomainProduct(variables, 1)
    /\ ~isRunning /\ Len(variables) > 0 /\ modelCheckerResults # <<>>
          => Len(modelCheckerResults) = DomainProduct(variables, 1)

\* a run over three variables with domains of different sizes
C12_Witness ==
    /\ Len(variables) = 3
    /\ Len(modelCheckerResults) = DomainProduct(variables, 1)
    /\ \E i, j \in 1..3 : Len(variables[i].possibleValues) = 3
                          /\ Len(variables[j].possibleValues) = 2

\* the value of variable number j in row number r of the lexicographic
\* order: the first variable varies slowest, each in the order of its domain
LexValue(vs, r, j) ==
    vs[j].possibleValues[(((r - 1) \div DomainProduct(vs, j + 1))
                             % Len(vs[j].possibleValues)) + 1]

RowsInOrder ==
    \A r \in 1..Len(modelCheckerResults) :
        /\ DOMAIN modelCheckerResults[r].combo = Names
        /\ \A j \in 1..Len(variables) :
              modelCheckerResults[r].combo[variables[j].name] = LexValue(variables, r, j)

\* C13: the stored rows are in lexicographic combination order, and a run on
\* unchanged input stores the rows that the run before it stored.
C13_SameRowsSameOrder ==
    [][/\ RowsInOrder'
       /\ (RunTimer /\ modelCheckerResults # <<>>)
             => modelCheckerResults' = modelCheckerResults]_vars

\* the rows of three variables are stored and the next run is pending
C13_Witness ==
    /\ isRunning
    /\ Len(variables) = 3
    /\ Len(modelCheckerResults) >= 8
    /\ \E r, q \in 1..Len(modelCheckerResults) :
          modelCheckerResults[r].result # modelCheckerResults[q].result

-----------------------------------------------------------------------------
(* The Simulation against the Model Checker *)

\* the stored row of the Model Checker for the values of test case number k
RowsOf(k) ==
    {i \in 1..Len(modelCheckerResults) : modelCheckerResults[i].combo = testCases[k].values}

SimResult(k) == simulationResults[testCases[k].id]

\* C14: for a test case that assigns every variable, the simulation ends at
\* leaf L without error exactly if the Model Checker's row for the same
\* assignment has result L, and it reports an error exactly if that row's
\* result is a fault.
C14_SameWalk ==
    \A k \in Simulated : \A i \in RowsOf(k) :
        /\ \A L \in LeafResults :
              (SimResult(k).result = L /\ ~SimResult(k).isError)
                 <=> modelCheckerResults[i].result = L
        /\ SimResult(k).isError <=> IsFault(modelCheckerResults[i].result)

SimFaultResults ==
    {SimNoRoot, SimLoop, SimStuck, SimEmptyCondition, SimInvalidExpression, SimTimeout}

\* the run ended at a leaf: the last node entered is a leaf and the result
\* is its external id, without error
EndedAtLeaf(k) ==
    /\ SimRun(k).entered # <<>>
    /\ NodeOf(Last(SimRun(k).entered)).type = "leaf"
    /\ SimResult(k).result = NodeOf(Last(SimRun(k).entered)).nodeId
    /\ ~SimResult(k).isError

\* C15: a simulation run that does not end at a leaf returns a fault:
\* isError is set and the result is not null but names the fault.
C15_FaultsAreTyped ==
    \A k \in Simulated :
        \/ EndedAtLeaf(k)
        \/ /\ SimResult(k).isError
           /\ SimResult(k).result # ResultNull
           /\ SimResult(k).result \in SimFaultResults

-----------------------------------------------------------------------------
(* The trace of a simulation run *)

\* the handles a walk with assignment c leaves node n by
HandlesOf(n, c) ==
    IF n.type = "root" THEN {"out", HandleNull}
    ELSE IF Holds(n.expression, c) THEN {"yes"} ELSE {"no"}

\* a walk with assignment c takes an edge at node id: the root or a decision
\* node with a valid guard, with an edge for the branch
HasStep(id, c) ==
    LET n == NodeOf(id) IN
    /\ n.type \in {"root", "decision"}
    /\ n.type = "decision" => ValidGuard(n.expression)
    /\ OutEdges(id, HandlesOf(n, c)) # {}

\* the edge it takes: the first in the edge list
StepEdge(id, c) ==
    LET out == OutEdges(id, HandlesOf(NodeOf(id), c)) IN
    edges[CHOOSE i \in out : \A j \in out : i <= j]

\* the edges a set of edge ids stands for
EdgesOf(edgeIds) == {i \in 1..Len(edges) : edges[i].id \in edgeIds}

\* the edges form one chain from the root to the leaf over exactly the nodes
IsChain(edgeIds, nodeIds, leaf, followed) ==
    LET E == EdgesOf(edgeIds) IN
    /\ Cardinality(E) = Cardinality(nodeIds) - 1
    /\ \A i \in E : edges[i].source \in nodeIds \ {leaf} /\ edges[i].target \in nodeIds \ {RootId}
    /\ \A n \in nodeIds \ {RootId} : Cardinality({i \in E : edges[i].target = n}) = 1
    /\ \A n \in nodeIds \ {leaf} : Cardinality({i \in E : edges[i].source = n}) = 1
    /\ Len(followed) = Cardinality(E)
    /\ followed[1].source = RootId
    /\ Last(followed).target = leaf
    /\ \A i \in 1..(Len(followed) - 1) : followed[i].target = followed[i + 1].source

-----------------------------------------------------------------------------
(* Expressions whose evaluation fails *)

\* the evaluation of the expression throws: a comparison without right-hand
\* side (SyntaxError), or a comparison that names an identifier that is
\* neither a variable nor an enum value (ReferenceError)
Fails(expression) ==
    \/ expression = <<"Temp", "==">>
    \/ /\ Len(expression) = 3
       /\ expression[2] \in {"==", "!="}
       /\ ~Declared(expression)

\* C17: a row whose walk evaluates a failing guard has the result Invalid
\* Expression and the walk ends at that guard; an invariant whose condition
\* fails for a row is not left out of the row's violations as if it held.
C17_FailuresSurface ==
    \A i \in 1..Len(modelCheckerResults) :
        /\ \A g \in 1..Len(RowRun(i).guards) :
              Fails(NodeOf(RowRun(i).guards[g]).expression)
                 => /\ modelCheckerResults[i].result = ErrInvalidExpression
                    /\ g = Len(RowRun(i).guards)
        /\ \A k \in 1..Len(invariants) :
              Fails(invariants[k].condition)
                 => invariants[k] \in Range(displayResults[i].violations)

-----------------------------------------------------------------------------
(* Properties of the Inspector *)

\* C18: the node analysis of the Inspector gives lines for every selected
\* node, unreachable ones included: it does not throw.
C18_AnalysisNeverFails ==
    selectedNode # NoSelection =>
        /\ analysisLines # ThrownLines
        /\ Len(analysisLines) = Len(variables)

-----------------------------------------------------------------------------
(* Properties of formatState *)

\* the line of variable v for its set in the state, the cases taken in the
\* order in which they are listed
ExpectedLine(v, state) ==
    IF v.id \notin DOMAIN state THEN v.name \o ": Unknown"
    ELSE LET S == state[v.id] IN
    IF S = {} THEN v.name \o ": Impossible (Contradiction)"
    ELSE IF Cardinality(S) = 1 THEN v.name \o " = " \o (CHOOSE x \in S : TRUE)
    ELSE IF S = Range(v.possibleValues) THEN v.name \o ": Any"
    ELSE IF S = {"HIGH", "LOW"} THEN v.name \o " = HIGH | LOW"
    ELSE IF S = {"HIGH", "MID"} THEN v.name \o " = HIGH | MID"
    ELSE IF S = {"LOW", "MID"} THEN v.name \o " = LOW | MID"
    ELSE "?"

\* C19: formatState gives one line per declared variable: Unknown when the
\* variable is absent from the state, Impossible (Contradiction) for the empty
\* set, V = x for a singleton, V: Any for the full domain, and V = a | b
\* with the values sorted for any other subset.
C19_LinePerVariable ==
    formatCall.called =>
        /\ Len(formatCall.lines) = Len(variables)
        /\ \A i \in 1..Len(variables) :
              formatCall.lines[i] = ExpectedLine(variables[i], formatCall.state)

\* a call with one variable whose set is a part of its domain that sorting
\* reorders, and one variable whose set is empty
C19_Witness ==
    /\ formatCall.called
    /\ Len(variables) = 2
    /\ \E i, j \in 1..2 :
          /\ variables[i].id \in DOMAIN formatCall.state
          /\ variables[j].id \in DOMAIN formatCall.state
          /\ Len(variables[i].possibleValues) = 3
          /\ formatCall.state[variables[i].id] = {"LOW", "HIGH"}
          /\ Len(variables[j].possibleValues) > 0
          /\ formatCall.state[variables[j].id] = {}

-----------------------------------------------------------------------------
(* Properties of the invariants *)

\* the violations the panel shows for a row when the invariants are invs
ViolationsShown(row, invs) == checkInvariants(row.combo, row.result, invs, variables)

\* C20: a change of the invariant list leaves the stored rows as they are;
\* the rows hold no violations, and in every state, so after every such
\* change, the violations shown are those of the list as it is: an invariant
\* of the list is shown for a row exactly if its condition holds for the
\* row's combination and it expects another result, and nothing else is shown.
C20_ViolationsAreDerived ==
    /\ [](\A i \in 1..Len(modelCheckerResults) :
             /\ DOMAIN modelCheckerResults[i] = {"combo", "result"}
             /\ Range(ViolationsShown(modelCheckerResults[i], invariants))
                   \subseteq Range(invariants)
             /\ \A k \in 1..Len(invariants) :
                   (invariants[k] \in Range(ViolationsShown(modelCheckerResults[i], invariants)))
                     <=> /\ Declared(invariants[k].condition)
                         /\ Holds(invariants[k].condition, modelCheckerResults[i].combo)
                         /\ invariants[k].expectedResult # modelCheckerResults[i].result)
    /\ [][invariants' # invariants => modelCheckerResults' = modelCheckerResults]_vars

\* rows are stored, and of the two invariants one is violated by a row that
\* the other is not violated by
C20_Witness ==
    /\ ~isRunning
    /\ Len(invariants) = 2
    /\ \E i \in 1..Len(modelCheckerResults) :
          /\ invariants[1] \in Range(displayResults[i].violations)
          /\ invariants[2] \notin Range(displayResults[i].violations)

-----------------------------------------------------------------------------
(* Reference notions for the validation of expressions *)

\* the words of a text: every token that is not an operator, without quotes
Words(text) == {Unquote(text[i]) : i \in {k \in 1..Len(text) : text[k] \notin OperatorTokens}}

DomainOf(name) ==
    UNION {Range(variables[k].possibleValues) :
              k \in {j \in 1..Len(variables) : variables[j].name = name}}

AllDomainValues == UNION {Range(variables[k].possibleValues) : k \in 1..Len(variables)}

\* the places of a text where a declared variable is compared with a word:
\* the variable is the left operand itself, not the end of a comparison
ComparisonsOf(text) ==
    {i \in 1..(Len(text) - 2) :
        /\ text[i] \in Names
        /\ text[i + 1] \in {"==", "!="}
        /\ text[i + 2] \notin OperatorTokens
        /\ (i > 1 => text[i - 1] \notin {"==", "!="})}

BooleanNullLiterals == {"true", "false", "null", "undefined"}

JavaScriptGlobals ==
    {"true", "false", "null", "undefined", "NaN", "Infinity", "Math", "Date", "String",
     "Number", "Boolean", "Array", "Object", "parseInt", "parseFloat", "isNaN", "isFinite"}

\* what the latest save did, read with the given allow-list: an accepted
\* text has only known words and only comparisons with a value of the
\* variable's domain or a variable name; a rejected text that is not empty
\* and parses is rejected for an unknown word, which the error names, or for
\* a value outside the domain of a variable, which the error lists
ValidationIsSound(allowList) ==
    saved.called =>
        LET text == saved.expression
            v == saved.validation
        IN /\ v.isValid =>
                /\ \A id \in Words(text) : id \in Names \cup AllDomainValues \cup allowList
                /\ \A i \in ComparisonsOf(text) :
                      Unquote(text[i + 2]) \in DomainOf(text[i]) \cup Names
           /\ (~v.isValid /\ text # <<>> /\ IsSyntaxOk(text)) =>
                \/ /\ v.error = ErrUnknownIdentifier
                   /\ v.token \in Words(text)
                   /\ v.token \notin Names \cup AllDomainValues \cup allowList
                \/ /\ v.error = ErrInvalidValue
                   /\ \E k \in 1..Len(variables), i \in 1..(Len(text) - 2) :
                         /\ text[i] = variables[k].name
                         /\ Unquote(text[i + 2]) = v.token
                         /\ v.token \notin DomainOf(text[i]) \cup Names
                         /\ v.allowed = variables[k].possibleValues

-----------------------------------------------------------------------------
(* Properties of the narrowing along one edge *)

\* the decision edges of path p all leave their node by the given handle
DecisionEdgesAre(p, handle) ==
    \A i \in 1..Len(p) :
        Find(nodes, LAMBDA n : n.id = p[i].source).type = "decision"
            => p[i].sourceHandle = handle

HasDecisionEdge(p) ==
    \E i \in 1..Len(p) : Find(nodes, LAMBDA n : n.id = p[i].source).type = "decision"

\* C22: along a path to the selected node whose decision edges are all yes
\* edges, the state is narrowed by exactly the simple conjuncts Var == Value
\* and Var != Value of the guards (split on &&); every other conjunct leaves
\* the state as it is.
C22_YesNarrowsBySimpleConjuncts ==
    selectedNode # NoSelection =>
        \A p \in SimplePaths(selectedNode) :
            DecisionEdgesAre(p, "yes") => PathState(p) = SimpleNarrowing(Universe, p, 1)

\* C23: along a path to the selected node whose decision edges are all no
\* edges, the state is narrowed only by the guards that are one simple
\* comparison, negated; after every other guard the state is the state
\* before it.
C23_NoNarrowsBySingleComparison ==
    selectedNode # NoSelection =>
        \A p \in SimplePaths(selectedNode) :
            DecisionEdgesAre(p, "no") => PathState(p) = SimpleNarrowing(Universe, p, 1)

-----------------------------------------------------------------------------
(* Properties of the path search *)

\* the paths calculateNodeState evaluates for the selected node
FoundPaths == findPaths(selectedNode, edges, RootId, <<>>, {})

\* an edge that leads back into a node from which its source is reached
IsBackEdge(e) ==
    /\ e.source \in Connected
    /\ e.target \in Connected
    /\ e.source \in Closure({e.target}) \ {e.target}

\* C24: the paths evaluated for the selected node are exactly the simple edge
\* paths from the root to it, each once, and every one of them contributes
\* one state.
C24_ExactlyTheSimplePaths ==
    selectedNode # NoSelection =>
        /\ Range(FoundPaths) = SimplePaths(selectedNode)
        /\ NoRepeat(FoundPaths)
        /\ Len(pathResults(FoundPaths, nodes, variables)) =
               Cardinality(SimplePaths(selectedNode))

\* two simple paths lead to the selected leaf, one of them through the node
\* whose other edge goes back into the path
C24_Witness ==
    /\ selectedNode = "l1"
    /\ \E i \in 1..Len(edges) :
          /\ IsBackEdge(edges[i])
          /\ \E p \in SimplePaths("l1") : edges[i].source \in Range(PathNodes(p))
    /\ Cardinality(SimplePaths("l1")) >= 2
    /\ Len(FoundPaths) = Cardinality(SimplePaths("l1"))

\* the label of the branch an edge leaves its source by: the null handle and
\* the handle out are the same branch
BranchLabel(e) == IF e.sourceHandle = HandleNull THEN "out" ELSE e.sourceHandle

(* C25: in a graph built from the initial graph by connections that        *)
(* isValidConnection accepts, no node has two outgoing edges with the same *)
(* branch label.                                                           *)
C25_OneEdgePerBranch ==
    \A i \in 1..Len(edges) : \A j \in 1..Len(edges) :
        (i # j /\ edges[i].source = edges[j].source)
            => BranchLabel(edges[i]) # BranchLabel(edges[j])

\* a decision node has its yes and its no edge and the root an edge with no
\* handle id; a further connection from the handle out of the root to another
\* node, and one from a handle of the decision node, are refused
C25_Witness ==
    /\ \E i \in 1..Len(edges) : edges[i].source = "D1" /\ edges[i].sourceHandle = "yes"
    /\ \E i \in 1..Len(edges) : edges[i].source = "D1" /\ edges[i].sourceHandle = "no"
    /\ \E i \in 1..Len(edges) : edges[i].source = "root" /\ edges[i].sourceHandle = HandleNull
    /\ \E c \in Connections(nodes) :
          /\ c.source = "root" /\ c.sourceHandle = "out"
          /\ \A i \in 1..Len(edges) : edges[i].source = c.source => edges[i].target # c.target
          /\ ~isValidConnection(c, edges)
    /\ \E c \in Connections(nodes) :
          /\ c.source = "D1"
          /\ \A i \in 1..Len(edges) : edges[i].source = c.source => edges[i].target # c.target
          /\ ~isValidConnection(c, edges)

\* the invariant is reported as violated for the stored row
ReportedViolated(row, inv, vs) == checkInvariants(row.combo, row.result, <<inv>>, vs) # <<>>

\* a step that stores what renumberNodes returns
IsRenumbering ==
    /\ nodes' = renumberNodes(nodes, edges, modelCheckerResults, simulationResults).newNodes
    /\ edges' = renumberNodes(nodes, edges, modelCheckerResults, simulationResults).newEdges
    /\ modelCheckerResults' =
          renumberNodes(nodes, edges, modelCheckerResults,
                        simulationResults).newModelCheckerResults
    /\ UNCHANGED <<variables, invariants>>

(* C26: renumbering the nodes changes no verdict: every invariant is        *)
(* reported as violated for a stored row after handleRenumber if and only  *)
(* if it was reported as violated for that row before.                     *)
C26_VerdictsSurviveRenumbering ==
    [][IsRenumbering =>
          \A i \in 1..Len(modelCheckerResults) : \A k \in 1..Len(invariants) :
              ReportedViolated(modelCheckerResults'[i], invariants'[k], variables')
                  <=> ReportedViolated(modelCheckerResults[i], invariants[k], variables)]_vars

Distinct(ids) == \A i \in 1..Len(ids) : \A j \in 1..Len(ids) : i # j => ids[i] # ids[j]

IdsOf(s) == [i \in 1..Len(s) |-> s[i].id]

(* C30: renumberNodes keeps ids unique: when the node ids and the edge ids  *)
(* of the graph are pairwise distinct, so are the node ids and the         *)
(* regenerated edge ids of the renumbered graph.                           *)
C30_IdsStayUnique ==
    (Distinct(IdsOf(nodes)) /\ Distinct(IdsOf(edges)))
        => /\ Distinct(IdsOf(renumberNodes(nodes, edges, modelCheckerResults,
                                           simulationResults).newNodes))
           /\ Distinct(IdsOf(renumberNodes(nodes, edges, modelCheckerResults,
                                           simulationResults).newEdges))

\* the edges that enter node n
IncomingEdges(n) == {i \in 1..Len(edges) : edges[i].target = n}

(* C27: the analysis of an edge agrees with the analysis of its target:    *)
(* for a selected yes or no edge of a decision node whose target is        *)
(* reachable and has no other incoming edge, the possible values shown for *)
(* the edge are those calculateNodeState gives for the target.             *)
C27_EdgeAgreesWithTarget ==
    (/\ selectedEdge # NoEdge
     /\ selectedEdge.sourceHandle \in {"yes", "no"}
     /\ Cardinality(IncomingEdges(selectedEdge.target)) = 1
     /\ calculateNodeState(selectedEdge.target, nodes, edges, variables) # Null)
        => edgeState(selectedEdge, nodes, edges, variables)
              = calculateNodeState(selectedEdge.target, nodes, edges, variables)

(* C28: under any interleaving of adding, editing and removing test cases  *)
(* with Run this case and Run All, every entry of simulationResults        *)
(* belongs to a test case that exists and is the result of the simulation  *)
(* of that test case's current values.                                     *)
C28_ResultsMatchTestCases ==
    \A id \in DOMAIN simulationResults :
        \E k \in 1..Len(testCases) :
            /\ testCases[k].id = id
            /\ simulationResults[id] = runSimulation(testCases[k].values, nodes, edges, variables)

(* C29: in a graph of fewer than MAX_STEPS nodes no walk of the Model      *)
(* Checker or of the Simulation reports the step-bound fault, and a walk   *)
(* that comes back to a node it has entered reports the loop.              *)
C29_LoopBeforeStepBound ==
    Len(nodes) < MAX_STEPS =>
        /\ \A i \in 1..Len(modelCheckerResults) :
              /\ modelCheckerResults[i].result # ErrTooManySteps
              /\ ~NoRepeat(RowRun(i).trace) => modelCheckerResults[i].result = ErrLoop
        /\ \A k \in Simulated :
              /\ simulationResults[testCases[k].id].result # SimTimeout
              /\ ~NoRepeat(SimRun(k).entered)
                    => simulationResults[testCases[k].id].result = SimLoop

\* a graph of MAX_STEPS - 1 nodes whose last decision node leads back to the
\* first one: both walks entered every node but the leaf, came back to the
\* first decision node and reported the loop
C29_Witness ==
    /\ Len(nodes) = MAX_STEPS - 1
    /\ \E i \in 1..Len(modelCheckerResults) :
          /\ Len(RowRun(i).trace) = Len(nodes)
          /\ ~NoRepeat(RowRun(i).trace)
          /\ modelCheckerResults[i].result = ErrLoop
    /\ \E k \in Simulated :
          /\ Len(SimRun(k).entered) = Len(nodes)
          /\ ~NoRepeat(SimRun(k).entered)
          /\ simulationResults[testCases[k].id].result = SimLoop

====
